---- MODULE Spec2Model ----
(***************************************************************************)
(* Model of the health-skill meal planner (scripts/meal_planner.py) and    *)
(* of the food-text parser (scripts/calculate_macros.py).                  *)
(*                                                                         *)
(* Text that the code inspects character by character (ingredients,        *)
(* dislikes, meal descriptions) is a sequence of one-character strings;    *)
(* text that the code only compares as a whole (allergens, tags, meal      *)
(* types) is a TLA+ string.  A scalar that is missing or None in the       *)
(* Python data is the empty string, a missing list is the empty sequence.  *)
(***************************************************************************)
EXTENDS Integers, Sequences, FiniteSets, TLC

(***************************************************************************)
(* Bounds of the model                                                     *)
(***************************************************************************)
\* largest number of templates in a catalog
MaxTemplates == 4
\* largest --count value tried
MaxCount == 3

(***************************************************************************)
(* Generic helpers                                                         *)
(***************************************************************************)
Range(s) == {s[i] : i \in 1..Len(s)}

\* F of the value of e, with e evaluated once
OfValue(F(_), e) == CHOOSE r \in {F(v) : v \in {e}} : TRUE

Min(a, b) == IF a <= b THEN a ELSE b

Max(a, b) == IF a >= b THEN a ELSE b

Abs(a) == IF a >= 0 THEN a ELSE 0 - a

\* list.index(x), 0-based; only used where x is in the list
IndexOf(s, x) == (CHOOSE i \in 1..Len(s) : s[i] = x /\ \A j \in 1..(i - 1) : s[j] # x) - 1

\* the strictly increasing index sequences of length at most n over 1..m
RECURSIVE IncreasingSeqs(_, _)
IncreasingSeqs(m, n) ==
    IF m = 0 \/ n = 0 THEN {<<>>}
    ELSE IncreasingSeqs(m - 1, n)
         \cup {Append(s, m) : s \in IncreasingSeqs(m - 1, n - 1)}

(***************************************************************************)
(* str.lower()                                                             *)
(***************************************************************************)
\* str.lower() on the whole-word strings of the model
Lower(s) ==
    CASE s = "PEANUTS" -> "peanuts"
      [] s = "Peanuts" -> "peanuts"
      [] s = "Soy" -> "soy"
      [] s = "Eggs" -> "eggs"
      [] s = "Vegan" -> "vegan"
      [] s = "Vegetarian" -> "vegetarian"
      [] s = "Gluten-Free" -> "gluten-free"
      [] s = "Dinner" -> "dinner"
      [] s = "Lunch" -> "lunch"
      [] s = "Summer" -> "summer"
      [] s = "Hard" -> "hard"
      [] s = "Basic" -> "basic"
      [] s = "Budget" -> "budget"
      [] s = "Thai" -> "thai"
      [] s = "Explore" -> "explore"
      [] OTHER -> s

\* [x.lower() for x in xs]
LowerAll(xs) == [i \in 1..Len(xs) |-> Lower(xs[i])]

\* str.lower() on one character
LowerChar(c) ==
    CASE c = "A" -> "a"
      [] c = "B" -> "b"
      [] c = "C" -> "c"
      [] c = "D" -> "d"
      [] c = "E" -> "e"
      [] c = "F" -> "f"
      [] c = "G" -> "g"
      [] c = "H" -> "h"
      [] c = "I" -> "i"
      [] c = "J" -> "j"
      [] c = "K" -> "k"
      [] c = "L" -> "l"
      [] c = "M" -> "m"
      [] c = "N" -> "n"
      [] c = "O" -> "o"
      [] c = "P" -> "p"
      [] c = "Q" -> "q"
      [] c = "R" -> "r"
      [] c = "S" -> "s"
      [] c = "T" -> "t"
      [] c = "U" -> "u"
      [] c = "V" -> "v"
      [] c = "W" -> "w"
      [] c = "X" -> "x"
      [] c = "Y" -> "y"
      [] c = "Z" -> "z"
      [] OTHER -> c

\* str.lower() on a character sequence
LowerText(t) == [i \in 1..Len(t) |-> LowerChar(t[i])]

\* ' '.join(parts) on character sequences
RECURSIVE JoinSpace(_)
JoinSpace(parts) ==
    IF Len(parts) = 0 THEN <<>>
    ELSE IF Len(parts) = 1 THEN parts[1]
    ELSE parts[1] \o <<" ">> \o JoinSpace(Tail(parts))

\* Python's  d in text  on character sequences (the empty text is in every text)
IsSubstring(d, text) ==
    \E i \in 0..(Len(text) - Len(d)) :
        \A k \in 1..Len(d) : text[i + k] = d[k]

(***************************************************************************)
(* Meal templates and user profiles the model draws its inputs from        *)
(***************************************************************************)
Pea == <<"p", "e", "a">>

Peanut == <<"p", "e", "a", "n", "u", "t">>

Tofu == <<"t", "o", "f", "u">>

Rice == <<"r", "i", "c", "e">>

Beef == <<"b", "e", "e", "f">>

Onion == <<"O", "n", "i", "o", "n">>

\* meal_templates.json entries: the fields filter_templates and score_template read
TemplatePool == <<
    [name |-> "Tofu Bowl", allergens |-> <<"Soy">>, meal_types |-> <<"Dinner", "lunch">>,
     tags |-> [dietary |-> <<"Vegetarian", "vegan">>, seasons |-> <<>>, difficulty |-> "easy",
               cooking_skill |-> "basic", budget |-> "budget", cuisines |-> <<"Thai">>],
     ingredients |-> <<Tofu, Rice>>, calories |-> 400, protein |-> 25, sodium |-> 600],
    [name |-> "Peanut Noodles", allergens |-> <<"Peanuts">>, meal_types |-> <<"dinner">>,
     tags |-> [dietary |-> <<"vegan">>, seasons |-> <<"Summer">>, difficulty |-> "medium",
               cooking_skill |-> "intermediate", budget |-> "moderate", cuisines |-> <<"thai">>],
     ingredients |-> <<Peanut, Rice>>, calories |-> 650, protein |-> 20, sodium |-> 900],
    [name |-> "Winter Stew", allergens |-> <<>>, meal_types |-> <<"dinner">>,
     tags |-> [dietary |-> <<>>, seasons |-> <<"winter">>, difficulty |-> "Hard",
               cooking_skill |-> "advanced", budget |-> "premium", cuisines |-> <<>>],
     ingredients |-> <<Beef, Onion>>, calories |-> 700, protein |-> 45, sodium |-> 2400],
    [name |-> "Pea Soup", allergens |-> <<>>, meal_types |-> <<"lunch", "dinner">>,
     tags |-> [dietary |-> <<"vegan", "gluten_free">>, seasons |-> <<"all">>, difficulty |-> "",
               cooking_skill |-> "", budget |-> "", cuisines |-> <<"french">>],
     ingredients |-> <<Pea>>, calories |-> 250, protein |-> 12, sodium |-> 500],
    [name |-> "Rice Bowl", allergens |-> <<>>, meal_types |-> <<"lunch", "dinner">>,
     tags |-> [dietary |-> <<"vegan", "gluten_free">>, seasons |-> <<"all">>, difficulty |-> "",
               cooking_skill |-> "", budget |-> "", cuisines |-> <<"french">>],
     ingredients |-> <<Rice>>, calories |-> 250, protein |-> 12, sodium |-> 500],
    [name |-> "Omelette", allergens |-> <<"eggs">>, meal_types |-> <<"breakfast", "Lunch", "dinner">>,
     tags |-> [dietary |-> <<"vegetarian">>, seasons |-> <<"summer", "winter">>, difficulty |-> "medium",
               cooking_skill |-> "basic", budget |-> "moderate", cuisines |-> <<"french">>],
     ingredients |-> <<>>, calories |-> 300, protein |-> 20, sodium |-> 300]
>>

\* the catalogs load_meal_templates can return: the pool's sub-lists, pool order kept
Catalogs ==
    {[i \in 1..Len(ix) |-> TemplatePool[ix[i]]] :
        ix \in IncreasingSeqs(Len(TemplatePool), MaxTemplates)}

\* the preference fields of the profiles tried
SoftPreferences ==
    {[dislikes |-> <<>>, cooking_skill |-> "", budget |-> "", meal_variety |-> ""],
     [dislikes |-> <<Pea, Onion>>, cooking_skill |-> "", budget |-> "Budget", meal_variety |-> "Explore"],
     [dislikes |-> <<>>, cooking_skill |-> "Basic", budget |-> "Budget", meal_variety |-> "consistent"],
     [dislikes |-> <<Pea, Onion>>, cooking_skill |-> "chef", budget |-> "", meal_variety |-> "random"]}

\* DIETARY_PROFILE values (config.py:91-103)
Profiles ==
    {[allergies |-> a, dietary_restrictions |-> r, dislikes |-> s.dislikes,
      cuisine_preferences |-> <<"Thai">>, cooking_skill |-> s.cooking_skill,
      budget |-> s.budget, meal_variety |-> s.meal_variety] :
        a \in {<<>>, <<"PEANUTS">>, <<"soy", "Eggs">>},
        r \in {<<>>, <<"Vegan">>, <<"paleo", "Gluten-Free">>},
        s \in SoftPreferences}

\* the months the model runs in
Months == {1, 7}

(***************************************************************************)
(* meal_planner.py: constants                                              *)
(***************************************************************************)
\* _MONTH_TO_SEASON
MONTH_TO_SEASON ==
    [m \in 1..12 |->
        CASE m \in {12, 1, 2} -> "winter"
          [] m \in {3, 4, 5} -> "spring"
          [] m \in {6, 7, 8} -> "summer"
          [] OTHER -> "fall"]

\* _DIFFICULTY_BY_MEAL_TYPE.get(meal_type.lower(), ['easy', 'medium', 'hard'])
DifficultyByMealType(mt) ==
    CASE mt = "breakfast" -> <<"easy">>
      [] mt = "lunch" -> <<"easy", "medium">>
      [] mt = "dinner" -> <<"easy", "medium", "hard">>
      [] mt = "snack" -> <<"easy">>
      [] OTHER -> <<"easy", "medium", "hard">>

skill_levels == <<"basic", "intermediate", "advanced">>

budget_levels == <<"budget", "moderate", "premium">>

\* restriction_tag_map.get(restriction); "" stands for None
RestrictionTagMap(restriction) ==
    CASE restriction = "vegetarian" -> "vegetarian"
      [] restriction = "vegan" -> "vegan"
      [] restriction = "gluten-free" -> "gluten_free"
      [] restriction = "gluten_free" -> "gluten_free"
      [] restriction = "dairy-free" -> "dairy_free"
      [] restriction = "dairy_free" -> "dairy_free"
      [] restriction = "keto" -> "keto"
      [] restriction = "low_sodium" -> "low_sodium"
      [] OTHER -> ""

relaxation_order == <<"budget", "cooking_skill", "seasons", "difficulty", "dislikes">>

\* the result count below which filter_templates relaxes a category
MinResults == 3

(***************************************************************************)
(* filter_templates: the locals computed before the passes                 *)
(***************************************************************************)
FilterContext(prof, mt, month) ==
    LET cs == Lower(prof.cooking_skill)
        bg == Lower(prof.budget)
    IN  [allergies |-> LowerAll(prof.allergies),
         restrictions |-> LowerAll(prof.dietary_restrictions),
         dislikes |-> [i \in 1..Len(prof.dislikes) |-> LowerText(prof.dislikes[i])],
         cooking_skill |-> cs,
         budget |-> bg,
         season |-> MONTH_TO_SEASON[month],
         skill_idx |-> IF cs \in Range(skill_levels) THEN IndexOf(skill_levels, cs) ELSE 2,
         budget_idx |-> IF bg \in Range(budget_levels) THEN IndexOf(budget_levels, bg) ELSE 2,
         allowed_difficulties |-> DifficultyByMealType(Lower(mt)),
         meal_type |-> mt]

(***************************************************************************)
(* filter_templates._passes_hard_filters                                   *)
(***************************************************************************)
\* AllergenOk with the allergens compared as written, not lowercased
AllergenOk_CaseSensitive(meal, ctx) ==
    \/ ctx.allergies = <<>>
    \/ ~ \E i \in 1..Len(ctx.allergies) : ctx.allergies[i] \in Range(meal.allergens)

\* the allergen filter lets the meal through
AllergenOk(meal, ctx) ==
    \/ ctx.allergies = <<>>
    \/ LET meal_allergens == LowerAll(meal.allergens)
       IN  ~ \E i \in 1..Len(ctx.allergies) : ctx.allergies[i] \in Range(meal_allergens)

\* RestrictionOk that stops at the first restriction, mapped or not
RestrictionOk_FirstOnly(meal, ctx) ==
    \/ ctx.restrictions = <<>>
    \/ LET dietary_tags == LowerAll(meal.tags.dietary)
           required_tag == RestrictionTagMap(ctx.restrictions[1])
       IN  ~ (required_tag # "" /\ required_tag \notin Range(dietary_tags))

\* the dietary restriction filter lets the meal through
RestrictionOk(meal, ctx) ==
    \/ ctx.restrictions = <<>>
    \/ LET dietary_tags == LowerAll(meal.tags.dietary)
       IN  \A i \in 1..Len(ctx.restrictions) :
               LET required_tag == RestrictionTagMap(ctx.restrictions[i])
               IN  ~ (required_tag # "" /\ required_tag \notin Range(dietary_tags))

\* MealTypeOk that only rejects a meal without any meal type
MealTypeOk_AnyType(meal, ctx) ==
    \/ ctx.meal_type = ""
    \/ meal.meal_types # <<>>

\* the meal type filter lets the meal through
MealTypeOk(meal, ctx) ==
    \/ ctx.meal_type = ""
    \/ Lower(ctx.meal_type) \in Range(LowerAll(meal.meal_types))

PassesHardFilters(meal, ctx) ==
    AllergenOk(meal, ctx) /\ RestrictionOk(meal, ctx) /\ MealTypeOk(meal, ctx)

(***************************************************************************)
(* filter_templates._passes_soft_filters                                   *)
(***************************************************************************)
DislikesOk(meal, ctx) ==
    \/ ctx.dislikes = <<>>
    \/ LET ingredients == [i \in 1..Len(meal.ingredients) |-> LowerText(meal.ingredients[i])]
       IN  ~ \E i \in 1..Len(ctx.dislikes) : IsSubstring(ctx.dislikes[i], JoinSpace(ingredients))

SeasonOk(meal, ctx) ==
    LET meal_seasons == LowerAll(IF meal.tags.seasons = <<>> THEN <<"all">> ELSE meal.tags.seasons)
    IN  ~ ("all" \notin Range(meal_seasons) /\ ctx.season \notin Range(meal_seasons))

DifficultyOk(meal, ctx) ==
    LET difficulty == Lower(IF meal.tags.difficulty = "" THEN "easy" ELSE meal.tags.difficulty)
    IN  difficulty \in Range(ctx.allowed_difficulties)

CookingSkillOk(meal, ctx) ==
    \/ ctx.cooking_skill = ""
    \/ LET meal_skill == Lower(IF meal.tags.cooking_skill = "" THEN "basic" ELSE meal.tags.cooking_skill)
           meal_skill_idx == IF meal_skill \in Range(skill_levels)
                             THEN IndexOf(skill_levels, meal_skill) ELSE 0
       IN  ~ (meal_skill_idx > ctx.skill_idx)

BudgetOk(meal, ctx) ==
    \/ ctx.budget = ""
    \/ LET meal_budget == Lower(IF meal.tags.budget = "" THEN "budget" ELSE meal.tags.budget)
           meal_budget_idx == IF meal_budget \in Range(budget_levels)
                              THEN IndexOf(budget_levels, meal_budget) ELSE 0
       IN  ~ (meal_budget_idx > ctx.budget_idx)

\* the predicate of one soft category
SoftPredicate(category, meal, ctx) ==
    CASE category = "dislikes" -> DislikesOk(meal, ctx)
      [] category = "seasons" -> SeasonOk(meal, ctx)
      [] category = "difficulty" -> DifficultyOk(meal, ctx)
      [] category = "cooking_skill" -> CookingSkillOk(meal, ctx)
      [] category = "budget" -> BudgetOk(meal, ctx)

\* PassesSoftFilters that keeps the dislikes filter whatever is relaxed
PassesSoftFilters_DislikesKept(meal, relax, ctx) ==
    /\ DislikesOk(meal, ctx)
    /\ ("seasons" \in relax \/ SeasonOk(meal, ctx))
    /\ ("difficulty" \in relax \/ DifficultyOk(meal, ctx))
    /\ ("cooking_skill" \in relax \/ CookingSkillOk(meal, ctx))
    /\ ("budget" \in relax \/ BudgetOk(meal, ctx))

\* PassesSoftFilters with the cooking skill test inverted: applied once relaxed
PassesSoftFilters_SkillInverted(meal, relax, ctx) ==
    /\ ("dislikes" \in relax \/ DislikesOk(meal, ctx))
    /\ ("seasons" \in relax \/ SeasonOk(meal, ctx))
    /\ ("difficulty" \in relax \/ DifficultyOk(meal, ctx))
    /\ ("cooking_skill" \notin relax \/ CookingSkillOk(meal, ctx))
    /\ ("budget" \in relax \/ BudgetOk(meal, ctx))

PassesSoftFilters(meal, relax, ctx) ==
    /\ ("dislikes" \in relax \/ DislikesOk(meal, ctx))
    /\ ("seasons" \in relax \/ SeasonOk(meal, ctx))
    /\ ("difficulty" \in relax \/ DifficultyOk(meal, ctx))
    /\ ("cooking_skill" \in relax \/ CookingSkillOk(meal, ctx))
    /\ ("budget" \in relax \/ BudgetOk(meal, ctx))

\* [m for m in templates if _passes_hard_filters(m) and _passes_soft_filters(m, relaxed)],
\* as the list of catalog positions of the templates kept
FilterPass(tpls, relax, ctx) ==
    SelectSeq([i \in 1..Len(tpls) |-> i],
              LAMBDA i : PassesHardFilters(tpls[i], ctx) /\ PassesSoftFilters(tpls[i], relax, ctx))

\* EnoughResults with the threshold one too low
EnoughResults_Two(flt) == Len(flt) >= MinResults - 1

\* EnoughResults that also stops on an empty result
EnoughResults_OrEmpty(flt) == Len(flt) >= MinResults \/ Len(flt) = 0

\* the  if len(filtered) >= 3: break  test of the relaxation loop
EnoughResults(flt) == Len(flt) >= MinResults

(***************************************************************************)
(* score_template.  Weights are held in hundredths, factors in             *)
(* thousandths (rounded down), a score in units of 1/100000.               *)
(***************************************************************************)
\* the value 1.0 of a factor
One == 1000

\* _VARIETY_WEIGHTS with one weight of the explore mode raised
VARIETY_WEIGHTS_Drifted ==
    [explore |->
        [calorie_fit |-> 25, protein_fit |-> 20, sodium_ok |-> 5,
         cuisine_bonus |-> 5, cuisine_diverse |-> 15, novelty_bonus |-> 15,
         repetition_penalty |-> 5, familiarity_bonus |-> 5,
         pattern_match |-> 0, random_factor |-> 10],
     balanced |->
        [calorie_fit |-> 25, protein_fit |-> 20, sodium_ok |-> 8,
         cuisine_bonus |-> 10, cuisine_diverse |-> 8, novelty_bonus |-> 7,
         repetition_penalty |-> 5, familiarity_bonus |-> 5,
         pattern_match |-> 5, random_factor |-> 7],
     consistent |->
        [calorie_fit |-> 25, protein_fit |-> 20, sodium_ok |-> 8,
         cuisine_bonus |-> 15, cuisine_diverse |-> 0, novelty_bonus |-> 0,
         repetition_penalty |-> 2, familiarity_bonus |-> 15,
         pattern_match |-> 10, random_factor |-> 5]]

\* _VARIETY_WEIGHTS, in hundredths
VARIETY_WEIGHTS ==
    [explore |->
        [calorie_fit |-> 25, protein_fit |-> 20, sodium_ok |-> 5,
         cuisine_bonus |-> 5, cuisine_diverse |-> 15, novelty_bonus |-> 15,
         repetition_penalty |-> 5, familiarity_bonus |-> 0,
         pattern_match |-> 0, random_factor |-> 10],
     balanced |->
        [calorie_fit |-> 25, protein_fit |-> 20, sodium_ok |-> 8,
         cuisine_bonus |-> 10, cuisine_diverse |-> 8, novelty_bonus |-> 7,
         repetition_penalty |-> 5, familiarity_bonus |-> 5,
         pattern_match |-> 5, random_factor |-> 7],
     consistent |->
        [calorie_fit |-> 25, protein_fit |-> 20, sodium_ok |-> 8,
         cuisine_bonus |-> 15, cuisine_diverse |-> 0, novelty_bonus |-> 0,
         repetition_penalty |-> 2, familiarity_bonus |-> 15,
         pattern_match |-> 10, random_factor |-> 5]]

\* the names of the scoring factors
FactorNames ==
    {"calorie_fit", "protein_fit", "sodium_ok", "cuisine_bonus", "cuisine_diverse",
     "novelty_bonus", "repetition_penalty", "familiarity_bonus", "pattern_match",
     "random_factor"}

\* the weights score_template selects for a profile
SelectWeights(prof) ==
    LET variety_mode == Lower(IF prof.meal_variety = "" THEN "balanced" ELSE prof.meal_variety)
    IN  IF variety_mode \in DOMAIN VARIETY_WEIGHTS
        THEN VARIETY_WEIGHTS[variety_mode]
        ELSE VARIETY_WEIGHTS["balanced"]

\* a fit that is not cut off at 0
RelativeFit_Unclamped(value, total, parts) ==
    One - (One * Abs(value * parts - total)) \div total

\* max(0, 1.0 - abs(value - target) / target)  for target = total / parts > 0
RelativeFit(value, total, parts) ==
    Max(0, One - (One * Abs(value * parts - total)) \div total)

\* the number of list positions that satisfy a test
CountIf(xs, Test(_)) == Cardinality({i \in 1..Len(xs) : Test(xs[i])})

\* the ten factors of score_template, random_factor given
ScoreFactors(template, rem, prof, hist, rnd) ==
    LET parts == Max(rem.meals_remaining, 1)
        cuisine_prefs == LowerAll(prof.cuisine_preferences)
        template_cuisines == LowerAll(template.tags.cuisines)
        template_ingredients ==
            [i \in 1..Len(template.ingredients) |-> LowerText(template.ingredients[i])]
        recent == hist.recent_food_names
        today == hist.today_food_names
        overlap == CountIf(today,
                     LAMBDA f : \E k \in 1..Len(template_ingredients) :
                                    IsSubstring(f, template_ingredients[k]))
        seen(ing) == \E k \in 1..Len(recent) : IsSubstring(ing, recent[k])
        meal_type == IF template.meal_types = <<>> THEN "" ELSE Lower(template.meal_types[1])
        typical_cal == IF meal_type \in DOMAIN hist.typical_calories
                       THEN hist.typical_calories[meal_type] ELSE 0
    IN  [calorie_fit |->
            IF rem.calories > 0 THEN RelativeFit(template.calories, rem.calories, parts)
            ELSE IF template.calories < 300 THEN One \div 2 ELSE 0,
         protein_fit |->
            IF rem.protein > 0 THEN RelativeFit(template.protein, rem.protein, parts)
            ELSE One \div 2,
         sodium_ok |-> IF template.sodium <= rem.sodium THEN One ELSE 0,
         cuisine_bonus |->
            IF cuisine_prefs # <<>> /\ Range(template_cuisines) \cap Range(cuisine_prefs) # {}
            THEN One ELSE 0,
         cuisine_diverse |->
            IF template_cuisines # <<>> /\ hist.detected_cuisines # {}
            THEN (IF Range(template_cuisines) \cap hist.detected_cuisines = {} THEN One ELSE 0)
            ELSE IF template_cuisines # <<>> THEN One ELSE 0,
         novelty_bonus |->
            IF template_ingredients = <<>> THEN 0
            ELSE IF recent = <<>> THEN One
            ELSE (One * CountIf(template_ingredients, LAMBDA ing : ~ seen(ing)))
                     \div Len(template_ingredients),
         repetition_penalty |->
            IF today # <<>> /\ template_ingredients # <<>> /\ overlap > 0
            THEN Max(0, One - (One * overlap) \div Len(template_ingredients))
            ELSE One,
         familiarity_bonus |->
            IF template_ingredients # <<>> /\ recent # <<>>
            THEN (One * CountIf(template_ingredients, LAMBDA ing : seen(ing)))
                     \div Len(template_ingredients)
            ELSE 0,
         pattern_match |->
            IF typical_cal > 0 THEN RelativeFit(template.calories, typical_cal, 1) ELSE 0,
         random_factor |-> rnd]

\* the weighted sum score_template returns
WeightedSum(weights, factors) ==
    weights.calorie_fit * factors.calorie_fit
    + weights.protein_fit * factors.protein_fit
    + weights.sodium_ok * factors.sodium_ok
    + weights.cuisine_bonus * factors.cuisine_bonus
    + weights.cuisine_diverse * factors.cuisine_diverse
    + weights.novelty_bonus * factors.novelty_bonus
    + weights.repetition_penalty * factors.repetition_penalty
    + weights.familiarity_bonus * factors.familiarity_bonus
    + weights.pattern_match * factors.pattern_match
    + weights.random_factor * factors.random_factor

score_template(template, rem, prof, hist, rnd) ==
    WeightedSum(SelectWeights(prof), ScoreFactors(template, rem, prof, hist, rnd))

\* round(s, 3): a score in 1/100000 to thousandths, a tie going to the even digit
Round3(sc) ==
    LET q == sc \div 100
        r == sc % 100
    IN  IF r > 50 \/ (r = 50 /\ q % 2 = 1) THEN q + 1 ELSE q

(***************************************************************************)
(* get_remaining_macros and get_history: what suggest_meals reads          *)
(***************************************************************************)
\* calculate_calorie_target() or 2000, with no goals configured
DefaultCalorieTarget == 2000

\* the protein target when no weight is configured
DefaultProteinTarget == 75

\* GOALS['sodium_limit_mg']
DefaultSodiumLimit == 2300

\* the hours of the day a call is made at
Hours == {9, 20}

\* today's logged totals (parse_diet_log) and the recent history (get_history)
DayStates ==
    {[consumed |-> [calories |-> 0, protein |-> 0, carbs |-> 0, fat |-> 0, sodium |-> 0],
      history |-> [detected_cuisines |-> {}, recent_food_names |-> <<>>,
                   today_food_names |-> <<>>, typical_calories |-> <<>>]],
     [consumed |-> [calories |-> 2100, protein |-> 40, carbs |-> 150, fat |-> 70, sodium |-> 1900],
      history |-> [detected_cuisines |-> {"thai"}, recent_food_names |-> <<Rice, Beef>>,
                   today_food_names |-> <<Rice>>,
                   typical_calories |-> [mt \in {"dinner", "lunch"} |-> 500]]]}

get_remaining_macros(consumed, hour) ==
    LET carb_target == (DefaultCalorieTarget * 40) \div 400
        fat_target == (DefaultCalorieTarget * 30) \div 900
    IN  [calories |-> Max(0, DefaultCalorieTarget - consumed.calories),
         protein |-> Max(0, DefaultProteinTarget - consumed.protein),
         carbs |-> Max(0, carb_target - consumed.carbs),
         fat |-> Max(0, fat_target - consumed.fat),
         sodium |-> Max(0, DefaultSodiumLimit - consumed.sodium),
         consumed |-> consumed,
         meals_remaining |-> IF hour < 10 THEN 3 ELSE IF hour < 14 THEN 2 ELSE 1]

\* the meal type suggest_meals infers from the hour
InferMealType(hour) ==
    IF hour < 10 THEN "breakfast"
    ELSE IF hour < 14 THEN "lunch"
    ELSE IF hour < 18 THEN "dinner"
    ELSE "snack"

\* random.random(), in thousandths: the values tried
RandomValues == {0, 4}

(***************************************************************************)
(* scored.sort(key=lambda x: x[1], reverse=True): a stable sort            *)
(***************************************************************************)
\* InsertByScore that puts x in front of the entries of equal score
RECURSIVE InsertByScore_Unstable(_, _)
InsertByScore_Unstable(sorted, x) ==
    IF sorted = <<>> THEN <<x>>
    ELSE IF sorted[1][2] > x[2] THEN <<sorted[1]>> \o InsertByScore_Unstable(Tail(sorted), x)
    ELSE <<x>> \o sorted

\* x placed behind every entry whose score is at least its own
RECURSIVE InsertByScore(_, _)
InsertByScore(sorted, x) ==
    IF sorted = <<>> THEN <<x>>
    ELSE IF sorted[1][2] >= x[2] THEN <<sorted[1]>> \o InsertByScore(Tail(sorted), x)
    ELSE <<x>> \o sorted

RECURSIVE SortByScoreDesc(_)
SortByScoreDesc(pairs) ==
    IF pairs = <<>> THEN <<>>
    ELSE InsertByScore(SortByScoreDesc(SubSeq(pairs, 1, Len(pairs) - 1)), pairs[Len(pairs)])

\* scored[:count] for count >= 0
TopN(pairs, n) == SubSeq(pairs, 1, Min(n, Len(pairs)))

(***************************************************************************)
(* calculate_macros.py: parse_food_items.  A text is a sequence of         *)
(* characters; a span is <<start, end>>, 0-based, end exclusive.           *)
(***************************************************************************)
\* largest number of pieces a text is put together from
MaxPieces == 3

\* the pieces the texts are put together from
TextPieces == {
    <<"c", "h", "i", "c", "k", "e", "n">>,
    <<" ", "b", "r", "e", "a", "s", "t">>,
    <<"s", "t", "e", "a", "k">>,
    <<"e", "g", "g", "s">>,
    <<"w", "h", "o", "l", "e", " ">>,
    <<"w", "h", "e", "a", "t", " ">>,
    <<"b", "r", "e", "a", "d">>,
    <<" ">>,
    <<"E", "G", "G">>,
    <<"t", "e", "a">>
}

\* the texts of at most n pieces
RECURSIVE TextsUpTo(_)
TextsUpTo(n) ==
    IF n = 0 THEN {<<>>}
    ELSE TextsUpTo(n - 1) \cup {t \o w : t \in TextsUpTo(n - 1), w \in TextPieces}

\* largest number of pieces a text about fast food is put together from
MaxChain == 4

\* the pieces of the texts in which phrases run into each other
ChainPieces == {
    <<"w", "e", "n", "d", "y", " ">>,
    <<"b", "u", "r", "g", "e", "r">>,
    <<" ", "k", "i", "n", "g", " ">>
}

\* the texts of at most n of these pieces
RECURSIVE ChainTextsUpTo(_)
ChainTextsUpTo(n) ==
    IF n = 0 THEN {<<>>}
    ELSE ChainTextsUpTo(n - 1) \cup {t \o w : t \in ChainTextsUpTo(n - 1), w \in ChainPieces}

Texts == TextsUpTo(MaxPieces) \cup ChainTextsUpTo(MaxChain)

food_phrases == <<
    <<"c", "h", "i", "c", "k", "e", "n", " ", "b", "r", "e", "a", "s", "t">>,
    <<"c", "h", "i", "c", "k", "e", "n", " ", "n", "u", "g", "g", "e", "t">>,
    <<"c", "h", "i", "c", "k", "e", "n", " ", "t", "e", "n", "d", "e", "r">>,
    <<"c", "h", "i", "c", "k", "e", "n", " ", "w", "i", "n", "g">>,
    <<"g", "r", "o", "u", "n", "d", " ", "b", "e", "e", "f">>,
    <<"b", "e", "e", "f", " ", "p", "a", "t", "t", "y">>,
    <<"r", "i", "b", "e", "y", "e", " ", "s", "t", "e", "a", "k">>,
    <<"s", "i", "r", "l", "o", "i", "n", " ", "s", "t", "e", "a", "k">>,
    <<"s", "a", "l", "m", "o", "n", " ", "f", "i", "l", "l", "e", "t">>,
    <<"t", "u", "n", "a", " ", "s", "t", "e", "a", "k">>,
    <<"w", "h", "i", "t", "e", " ", "r", "i", "c", "e">>,
    <<"b", "r", "o", "w", "n", " ", "r", "i", "c", "e">>,
    <<"f", "r", "i", "e", "d", " ", "r", "i", "c", "e">>,
    <<"w", "h", "e", "a", "t", " ", "b", "r", "e", "a", "d">>,
    <<"w", "h", "o", "l", "e", " ", "w", "h", "e", "a", "t", " ", "b", "r", "e", "a", "d">>,
    <<"m", "a", "s", "h", "e", "d", " ", "p", "o", "t", "a", "t", "o">>,
    <<"f", "r", "e", "n", "c", "h", " ", "f", "r", "i", "e", "s">>,
    <<"g", "r", "e", "e", "k", " ", "y", "o", "g", "u", "r", "t">>,
    <<"c", "o", "t", "t", "a", "g", "e", " ", "c", "h", "e", "e", "s", "e">>,
    <<"c", "h", "e", "d", "d", "a", "r", " ", "c", "h", "e", "e", "s", "e">>,
    <<"b", "l", "u", "e", " ", "c", "h", "e", "e", "s", "e">>,
    <<"a", "l", "m", "o", "n", "d", " ", "m", "i", "l", "k">>,
    <<"s", "o", "y", " ", "m", "i", "l", "k">>,
    <<"o", "a", "t", " ", "m", "i", "l", "k">>,
    <<"w", "e", "n", "d", "y", " ", "b", "u", "r", "g", "e", "r">>,
    <<"w", "e", "n", "d", "y", " ", "f", "r", "i", "e", "s">>,
    <<"w", "e", "n", "d", "y", " ", "n", "u", "g", "g", "e", "t">>,
    <<"m", "c", "d", "o", "n", "a", "l", "d", " ", "b", "u", "r", "g", "e", "r">>,
    <<"b", "u", "r", "g", "e", "r", " ", "k", "i", "n", "g", " ", "b", "u", "r", "g", "e", "r">>,
    <<"p", "e", "a", "n", "u", "t", " ", "b", "u", "t", "t", "e", "r">>,
    <<"a", "l", "m", "o", "n", "d", " ", "b", "u", "t", "t", "e", "r">>,
    <<"a", "p", "p", "l", "e", " ", "p", "i", "e">>,
    <<"f", "r", "u", "i", "t", " ", "s", "a", "l", "a", "d">>
>>

food_keywords == <<
    <<"c", "h", "i", "c", "k", "e", "n">>,
    <<"b", "e", "e", "f">>,
    <<"f", "i", "s", "h">>,
    <<"s", "a", "l", "m", "o", "n">>,
    <<"t", "u", "n", "a">>,
    <<"s", "t", "e", "a", "k">>,
    <<"p", "o", "r", "k">>,
    <<"r", "i", "c", "e">>,
    <<"p", "a", "s", "t", "a">>,
    <<"b", "r", "e", "a", "d">>,
    <<"p", "o", "t", "a", "t", "o">>,
    <<"f", "r", "i", "e", "s">>,
    <<"p", "i", "z", "z", "a">>,
    <<"s", "a", "l", "a", "d">>,
    <<"v", "e", "g", "e", "t", "a", "b", "l", "e", "s">>,
    <<"b", "r", "o", "c", "c", "o", "l", "i">>,
    <<"s", "p", "i", "n", "a", "c", "h">>,
    <<"p", "e", "a", "s">>,
    <<"c", "o", "r", "n">>,
    <<"e", "g", "g">>,
    <<"e", "g", "g", "s">>,
    <<"y", "o", "g", "u", "r", "t">>,
    <<"m", "i", "l", "k">>,
    <<"c", "h", "e", "e", "s", "e">>,
    <<"b", "u", "t", "t", "e", "r">>,
    <<"a", "v", "o", "c", "a", "d", "o">>,
    <<"n", "u", "t", "s">>,
    <<"a", "l", "m", "o", "n", "d", "s">>,
    <<"p", "e", "a", "n", "u", "t", "s">>,
    <<"c", "a", "s", "h", "e", "w", "s">>,
    <<"b", "u", "r", "g", "e", "r">>,
    <<"s", "a", "n", "d", "w", "i", "c", "h">>,
    <<"t", "a", "c", "o">>,
    <<"w", "r", "a", "p">>,
    <<"w", "e", "n", "d", "y">>,
    <<"m", "c", "d", "o", "n", "a", "l", "d">>,
    <<"b", "u", "r", "g", "e", "r", " ", "k", "i", "n", "g">>,
    <<"k", "f", "c">>,
    <<"s", "u", "b", "w", "a", "y">>,
    <<"t", "a", "c", "o", " ", "b", "e", "l", "l">>,
    <<"c", "o", "f", "f", "e", "e">>,
    <<"t", "e", "a">>,
    <<"s", "o", "d", "a">>,
    <<"j", "u", "i", "c", "e">>,
    <<"n", "u", "g", "g", "e", "t">>,
    <<"f", "r", "y">>,
    <<"c", "a", "k", "e">>,
    <<"c", "o", "o", "k", "i", "e">>,
    <<"c", "h", "i", "p", "s">>,
    <<"a", "p", "p", "l", "e">>,
    <<"b", "a", "n", "a", "n", "a">>,
    <<"o", "r", "a", "n", "g", "e">>,
    <<"b", "e", "r", "r", "i", "e", "s">>,
    <<"f", "r", "u", "i", "t">>
>>

\* the pattern occurs in the text at the 0-based position
MatchesAt(pat, txt, pos) ==
    /\ pos + Len(pat) <= Len(txt)
    /\ \A k \in 1..Len(pat) : txt[pos + k] = pat[k]

\* re.finditer(re.escape(pat), txt): the starts of the occurrences, left to right,
\* each search resuming where the previous occurrence ended
RECURSIVE FindIter(_, _, _)
FindIter(pat, txt, from) ==
    LET at == {p \in from..(Len(txt) - Len(pat)) : MatchesAt(pat, txt, p)}
        First(S) == CHOOSE p \in S : \A q \in S : p <= q
        Found(p) == <<p>> \o FindIter(pat, txt, p + Len(pat))
    IN  IF at = {} THEN <<>> ELSE OfValue(Found, OfValue(First, at))

\* _overlaps that only asks whether the new span starts inside an accepted one
Overlaps_StartInside(found, start, end) ==
    \E k \in 1..Len(found) : found[k][1] <= start /\ start < found[k][2]

\* parse_food_items._overlaps
Overlaps(found, start, end) ==
    \E k \in 1..Len(found) : start < found[k][2] /\ end > found[k][1]

(***************************************************************************)
(* calculate_macros.py: _extract_quantity_and_unit.  A position p is the   *)
(* number of characters before it; the character at p is txt[p + 1].      *)
(* The texts hold no line break, so $ is the end of the text.  A quantity  *)
(* is in thousandths (One is 1.0).                                         *)
(***************************************************************************)
\* the characters \d matches
Digits == {"0", "1", "2", "3", "4", "5", "6", "7", "8", "9"}

\* the characters \s matches
Blanks == {" ", "\t"}

\* the characters on either side of which \b looks for a change
WordChars ==
    Digits \cup {"_"} \cup
    {"a", "b", "c", "d", "e", "f", "g", "h", "i", "j", "k", "l", "m",
     "n", "o", "p", "q", "r", "s", "t", "u", "v", "w", "x", "y", "z"} \cup
    {"A", "B", "C", "D", "E", "F", "G", "H", "I", "J", "K", "L", "M",
     "N", "O", "P", "Q", "R", "S", "T", "U", "V", "W", "X", "Y", "Z"}

DigitValue(c) ==
    CASE c = "0" -> 0 [] c = "1" -> 1 [] c = "2" -> 2 [] c = "3" -> 3 [] c = "4" -> 4
      [] c = "5" -> 5 [] c = "6" -> 6 [] c = "7" -> 7 [] c = "8" -> 8 [] c = "9" -> 9

\* txt[from:to]
Slice(txt, from, to) == SubSeq(txt, from + 1, to)

\* \d+ : the positions a run of one or more digits can end at, started at a position of P
DigitRun(txt, P) ==
    {e \in 0..Len(txt) : \E p \in P : p < e /\ \A k \in (p + 1)..e : txt[k] \in Digits}

\* \s* and \s+
BlankRun(txt, P, least) ==
    {e \in 0..Len(txt) : \E p \in P : p + least <= e /\ \A k \in (p + 1)..e : txt[k] \in Blanks}

\* (?:w1|w2|...) : one of the words
OneOf(words, txt, P) ==
    {e \in 0..Len(txt) : \E p \in P, w \in words : e = p + Len(w) /\ MatchesAt(w, txt, p)}

\* (\d+(?:\.\d+)?) : the positions the number can end at
NumberEnds(txt, P) ==
    LET whole == DigitRun(txt, P)
    IN  whole \cup DigitRun(txt, OneOf({<<".">>}, txt, whole))

\* float() of digits with an optional fraction, in thousandths; digits of the
\* fraction after the third are dropped
RECURSIVE WholeValue(_)
WholeValue(ds) ==
    IF ds = <<>> THEN 0
    ELSE 10 * WholeValue(SubSeq(ds, 1, Len(ds) - 1)) + DigitValue(ds[Len(ds)])

ParseFloat(num) ==
    LET dots == {k \in 1..Len(num) : num[k] = "."}
    IN  IF dots = {} THEN One * WholeValue(num)
        ELSE LET d == CHOOSE k \in dots : TRUE
                 frac == SubSeq(num, d + 1, Len(num))
                 f3 == SubSeq(frac \o <<"0", "0", "0">>, 1, 3)
             IN  One * WholeValue(SubSeq(num, 1, d - 1)) + WholeValue(f3)

\* the unit alternatives of the patterns, as characters
Word_g == <<"g">>
Word_gram == <<"g", "r", "a", "m">>
Word_grams == <<"g", "r", "a", "m", "s">>
Word_oz == <<"o", "z">>
Word_ounce == <<"o", "u", "n", "c", "e">>
Word_ounces == <<"o", "u", "n", "c", "e", "s">>
Word_cup == <<"c", "u", "p">>
Word_cups == <<"c", "u", "p", "s">>
Word_bowl == <<"b", "o", "w", "l">>
Word_bowls == <<"b", "o", "w", "l", "s">>
Word_glasse == <<"g", "l", "a", "s", "s", "e">>
Word_glasses == <<"g", "l", "a", "s", "s", "e", "s">>
Word_serving == <<"s", "e", "r", "v", "i", "n", "g">>
Word_servings == <<"s", "e", "r", "v", "i", "n", "g", "s">>
Word_piece == <<"p", "i", "e", "c", "e">>
Word_pieces == <<"p", "i", "e", "c", "e", "s">>
Word_slice == <<"s", "l", "i", "c", "e">>
Word_slices == <<"s", "l", "i", "c", "e", "s">>
Word_tablespoon == <<"t", "a", "b", "l", "e", "s", "p", "o", "o", "n">>
Word_tablespoons == <<"t", "a", "b", "l", "e", "s", "p", "o", "o", "n", "s">>
Word_tbsp == <<"t", "b", "s", "p">>
Word_of == <<"o", "f">>
Word_a == <<"a">>
Word_an == <<"a", "n">>

\* WORD_NUMBERS, in the order of the dict
WORD_NUMBERS == <<
    [word |-> <<"a">>, val |-> One],
    [word |-> <<"a", "n">>, val |-> One],
    [word |-> <<"o", "n", "e">>, val |-> One],
    [word |-> <<"t", "w", "o">>, val |-> 2 * One],
    [word |-> <<"t", "h", "r", "e", "e">>, val |-> 3 * One],
    [word |-> <<"f", "o", "u", "r">>, val |-> 4 * One],
    [word |-> <<"f", "i", "v", "e">>, val |-> 5 * One],
    [word |-> <<"s", "i", "x">>, val |-> 6 * One],
    [word |-> <<"h", "a", "l", "f">>, val |-> One \div 2],
    [word |-> <<"q", "u", "a", "r", "t", "e", "r">>, val |-> One \div 4],
    [word |-> <<"s", "o", "m", "e">>, val |-> One],
    [word |-> <<"c", "o", "u", "p", "l", "e">>, val |-> 2 * One]
>>

\* _WORD_NUM_PATTERN
NumberWords == {WORD_NUMBERS[k].word : k \in 1..Len(WORD_NUMBERS)}

\* unit_patterns: the unit words, whether \s+ (rather than \s*) follows them,
\* whether (?:of\s+)? is allowed, and the unit returned
unit_patterns == <<
    [words |-> {Word_g, Word_gram, Word_grams}, least |-> 0, of |-> FALSE, unit |-> Word_g],
    [words |-> {Word_oz, Word_ounce, Word_ounces}, least |-> 1, of |-> FALSE, unit |-> Word_oz],
    [words |-> {Word_cup, Word_cups}, least |-> 1, of |-> TRUE, unit |-> Word_cups],
    [words |-> {Word_bowl, Word_bowls}, least |-> 1, of |-> TRUE, unit |-> Word_bowls],
    [words |-> {Word_glasse, Word_glasses}, least |-> 1, of |-> TRUE, unit |-> Word_glasses],
    [words |-> {Word_serving, Word_servings}, least |-> 1, of |-> TRUE, unit |-> Word_servings],
    [words |-> {Word_piece, Word_pieces}, least |-> 1, of |-> TRUE, unit |-> Word_pieces],
    [words |-> {Word_slice, Word_slices}, least |-> 1, of |-> TRUE, unit |-> Word_slices],
    [words |-> {Word_tablespoon, Word_tablespoons, Word_tbsp}, least |-> 1, of |-> TRUE, unit |-> Word_tbsp]
>>

\* the value of a rule that does not apply
NoMatch == [quantity |-> -1, unit |-> <<>>]

Least(S) == CHOOSE x \in S : \A y \in S : x <= y

Greatest(S) == CHOOSE x \in S : \A y \in S : y <= x

\* \b at a position: a word character on exactly one side
AtWordBoundary(txt, p) ==
    (p > 0 /\ txt[p] \in WordChars) # (p < Len(txt) /\ txt[p + 1] \in WordChars)

\* the rest of a unit pattern, after the number that ends at e, reaches $
UnitTailMatches(pat, txt, e) ==
    LET u == BlankRun(txt, OneOf(pat.words, txt, BlankRun(txt, {e}, 0)), pat.least)
    IN  Len(txt) \in (IF pat.of THEN u \cup BlankRun(txt, OneOf({Word_of}, txt, u), 1) ELSE u)

\* re.search(pattern, nearby) for one of unit_patterns: the number of the leftmost
\* match, as characters, or <<>> when there is no match
SearchUnitPattern(pat, txt) ==
    LET starts == {s \in 0..Len(txt) : \E e \in NumberEnds(txt, {s}) : UnitTailMatches(pat, txt, e)}
    IN  IF starts = {} THEN <<>>
        ELSE LET s == Least(starts)
             IN  Slice(txt, s, Greatest({e \in NumberEnds(txt, {s}) : UnitTailMatches(pat, txt, e)}))

\* Pattern 1: numeric with explicit unit; the first of unit_patterns that matches
NumberWithUnit(nearby) ==
    LET hits == {k \in 1..Len(unit_patterns) : SearchUnitPattern(unit_patterns[k], nearby) # <<>>}
    IN  IF hits = {} THEN NoMatch
        ELSE [quantity |-> ParseFloat(SearchUnitPattern(unit_patterns[Least(hits)], nearby)),
              unit |-> unit_patterns[Least(hits)].unit]

\* unit directly attached to the food word: re.match on food_text
AttachedNumber(food_text) ==
    LET ends == {e \in NumberEnds(food_text, {0}) :
                    \E u \in OneOf({Word_g, Word_gram, Word_grams}, food_text,
                                   BlankRun(food_text, {e}, 0)) : AtWordBoundary(food_text, u)}
    IN  IF ends = {} THEN NoMatch
        ELSE [quantity |-> ParseFloat(Slice(food_text, 0, Greatest(ends))), unit |-> Word_g]

\* the unit alternatives of word_unit_pattern, in the order of the pattern
WordUnitWords == <<Word_cup, Word_bowl, Word_glasse, Word_serving, Word_piece, Word_slice>>

\* word_unit_pattern matches from s to $
WordUnitMatches(txt, s) ==
    LET w == BlankRun(txt, OneOf(NumberWords, txt, {s}), 1)
        a == w \cup BlankRun(txt, OneOf({Word_a, Word_an}, txt, w), 1)
        u == BlankRun(txt, OneOf(Range(WordUnitWords) \cup {x \o <<"s">> : x \in Range(WordUnitWords)},
                                 txt, a), 1)
    IN  Len(txt) \in u \cup BlankRun(txt, OneOf({Word_of}, txt, u), 1)

\* re.search(r'\bword\b', matched)
WholeWordIn(word, matched) ==
    \E p \in 0..Len(matched) :
        /\ MatchesAt(word, matched, p)
        /\ AtWordBoundary(matched, p)
        /\ AtWordBoundary(matched, p + Len(word))

\* re.search(r'(cups?|bowls?|...)', matched).group(1), or 'servings'
UnitWordIn(matched) ==
    LET at == {p \in 0..Len(matched) : \E k \in 1..Len(WordUnitWords) : MatchesAt(WordUnitWords[k], matched, p)}
    IN  IF at = {} THEN Word_servings
        ELSE LET p == Least(at)
                 w == WordUnitWords[Least({k \in 1..Len(WordUnitWords) : MatchesAt(WordUnitWords[k], matched, p)})]
             IN  IF MatchesAt(w \o <<"s">>, matched, p) THEN w \o <<"s">> ELSE w

\* Pattern 2: word number with unit
WordNumberWithUnit(nearby) ==
    LET starts == {s \in 0..Len(nearby) : WordUnitMatches(nearby, s)}
    IN  IF starts = {} THEN NoMatch
        ELSE LET matched == Slice(nearby, Least(starts), Len(nearby))
                 found == {k \in 1..Len(WORD_NUMBERS) : WholeWordIn(WORD_NUMBERS[k].word, matched)}
             IN  IF found = {} THEN NoMatch
                 ELSE [quantity |-> WORD_NUMBERS[Least(found)].val, unit |-> UnitWordIn(matched)]

\* Pattern 3: bare number before food
BareNumber(nearby) ==
    LET tail(e) == Len(nearby) \in BlankRun(nearby, {e}, 0)
        starts == {s \in 0..Len(nearby) : \E e \in NumberEnds(nearby, {s}) : tail(e)}
    IN  IF starts = {} THEN NoMatch
        ELSE LET s == Least(starts)
             IN  [quantity |-> ParseFloat(Slice(nearby, s, Greatest({e \in NumberEnds(nearby, {s}) : tail(e)}))),
                  unit |-> Word_servings]

\* Pattern 4: word number before food; the word starts at the start of the text
\* or after a blank
WordNumberBefore(nearby) ==
    LET tail(p) == LET w == BlankRun(nearby, {p}, 1)
                   IN  Len(nearby) \in w \cup BlankRun(nearby, OneOf({Word_a, Word_an}, nearby, w), 1)
        hit(p, k) == /\ MatchesAt(WORD_NUMBERS[k].word, nearby, p)
                     /\ tail(p + Len(WORD_NUMBERS[k].word))
        starts == {p \in 0..Len(nearby) :
                      /\ p = 0 \/ nearby[p] \in Blanks
                      /\ \E k \in 1..Len(WORD_NUMBERS) : hit(p, k)}
    IN  IF starts = {} THEN NoMatch
        ELSE [quantity |-> WORD_NUMBERS[Least({k \in 1..Len(WORD_NUMBERS) : hit(Least(starts), k)})].val,
              unit |-> Word_servings]

\* the length of the context before a food the quantity is looked for in
NearbyLength == 40

\* a nearby that is the whole of before_text
Nearby_Whole(before_text) == before_text

\* nearby = before_text[-40:] if len(before_text) > 40 else before_text
Nearby(before_text) ==
    IF Len(before_text) > NearbyLength
    THEN SubSeq(before_text, Len(before_text) - NearbyLength + 1, Len(before_text))
    ELSE before_text

\* the result when no pattern applies
DefaultQuantity == [quantity |-> One, unit |-> Word_servings]

\* the first of the results that is a match, or the default
RECURSIVE FirstMatch(_)
FirstMatch(rs) ==
    IF rs = <<>> THEN DefaultQuantity
    ELSE IF rs[1] # NoMatch THEN rs[1] ELSE FirstMatch(Tail(rs))

\* _extract_quantity_and_unit that looks at the food word only after the context
extract_quantity_and_unit_AttachedLast(before_text, food_text) ==
    LET nearby == Nearby(before_text)
    IN  FirstMatch(<<NumberWithUnit(nearby), WordNumberWithUnit(nearby), BareNumber(nearby),
                     WordNumberBefore(nearby), AttachedNumber(food_text)>>)

\* _extract_quantity_and_unit
extract_quantity_and_unit(before_text, food_text) ==
    LET nearby == Nearby(before_text)
    IN  FirstMatch(<<NumberWithUnit(nearby), AttachedNumber(food_text),
                     WordNumberWithUnit(nearby), BareNumber(nearby), WordNumberBefore(nearby)>>)

\* the inner loop over the occurrences of one catalog entry; acc holds food_items
\* and found_positions
RECURSIVE AcceptMatches(_, _, _, _)
AcceptMatches(acc, entry, starts, txt) ==
    IF starts = <<>> THEN acc
    ELSE LET idx == starts[1]
             end == idx + Len(entry)
             qu == extract_quantity_and_unit(Slice(txt, 0, idx), entry)
         IN  AcceptMatches(
                 IF ~ Overlaps(acc.found_positions, idx, end)
                 THEN [food_items |-> Append(acc.food_items,
                                             [name |-> entry, quantity |-> qu.quantity, unit |-> qu.unit]),
                       found_positions |-> Append(acc.found_positions, <<idx, end>>)]
                 ELSE acc,
                 entry, Tail(starts), txt)

\* the outer loop over a catalog list
RECURSIVE ScanEntries(_, _, _)
ScanEntries(acc, entries, txt) ==
    LET Rest(after) == ScanEntries(after, Tail(entries), txt)
    IN  IF entries = <<>> THEN acc
        ELSE OfValue(Rest, AcceptMatches(acc, entries[1], FindIter(entries[1], txt, 0), txt))

(***************************************************************************)
(* query_food_db.py.  A value of a database cell or of a JSON document is  *)
(* a record: t is its type, n its number (in thousandths), s its           *)
(* characters, kids its elements (a list) or its <<key, value>> pairs (an  *)
(* object).  The outcome of a call is the exception it raised ("" for      *)
(* none) and the value it returned.                                        *)
(***************************************************************************)
\* the characters of a string
Chars(str) == [i \in 1..Len(str) |-> SubSeq(str, i, i)]

NullValue == [t |-> "null", n |-> 0, s |-> <<>>, kids |-> <<>>]

NumValue(n) == [t |-> "num", n |-> n, s |-> <<>>, kids |-> <<>>]

StrValue(str) == [t |-> "str", n |-> 0, s |-> Chars(str), kids |-> <<>>]

CharsValue(cs) == [t |-> "str", n |-> 0, s |-> cs, kids |-> <<>>]

BoolValue(b) == [t |-> "bool", n |-> IF b THEN One ELSE 0, s |-> <<>>, kids |-> <<>>]

ListValue(kids) == [t |-> "list", n |-> 0, s |-> <<>>, kids |-> kids]

ObjValue(pairs) == [t |-> "obj", n |-> 0, s |-> <<>>, kids |-> pairs]

Returns(v) == [raised |-> "", value |-> v]

Raises(e) == [raised |-> e, value |-> NullValue]

\* bool(v)
Truthy(v) ==
    CASE v.t = "null" -> FALSE
      [] v.t \in {"num", "bool"} -> v.n # 0
      [] v.t = "str" -> v.s # <<>>
      [] OTHER -> v.kids # <<>>

\* the text is a number float() reads: blanks, an optional sign, digits with an
\* optional fraction, blanks (the texts of the model hold no exponent, inf or nan)
NumberTextValue(cs) ==
    LET from == Greatest(BlankRun(cs, {0}, 0))
        signed == from < Len(cs) /\ cs[from + 1] \in {"-", "+"}
        at == IF signed THEN from + 1 ELSE from
        ends == {e \in NumberEnds(cs, {at}) : Len(cs) \in BlankRun(cs, {e}, 0)}
    IN  IF ends = {} THEN Raises("ValueError")
        ELSE LET n == ParseFloat(Slice(cs, at, Greatest(ends)))
             IN  Returns(NumValue(IF signed /\ cs[from + 1] = "-" THEN 0 - n ELSE n))

\* float(v)
ToFloat(v) ==
    CASE v.t \in {"num", "bool"} -> Returns(NumValue(v.n))
      [] v.t = "str" -> NumberTextValue(v.s)
      [] OTHER -> Raises("TypeError")

(***************************************************************************)
(* json.loads, for documents without escapes and exponents                 *)
(***************************************************************************)
JsonFail == [ok |-> FALSE, val |-> NullValue, next |-> 0]

JsonOk(v, next) == [ok |-> TRUE, val |-> v, next |-> next]

\* the position after the blanks at p
SkipBlanks(txt, p) == Greatest(BlankRun(txt, {p}, 0))

\* the character at a position, "" past the end
CharAt(txt, p) == IF p < Len(txt) THEN txt[p + 1] ELSE ""

\* a string: from the quote at p to the next quote
JsonString(txt, p) ==
    LET closes == {q \in (p + 1)..(Len(txt) - 1) : txt[q + 1] = "\""}
    IN  IF CharAt(txt, p) # "\"" \/ closes = {} THEN JsonFail
        ELSE LET q == Least(closes)
             IN  IF \E k \in (p + 2)..q : txt[k] = "\\" THEN JsonFail
                 ELSE JsonOk(CharsValue(Slice(txt, p + 1, q)), q + 1)

\* a number: -?(0|[1-9]\d*)(\.\d+)?
JsonNumber(txt, p) ==
    LET at == IF CharAt(txt, p) = "-" THEN p + 1 ELSE p
        whole == IF CharAt(txt, at) = "0" THEN {at + 1} ELSE DigitRun(txt, {at})
    IN  IF whole = {} THEN JsonFail
        ELSE LET w == Greatest(whole)
                 frac == DigitRun(txt, OneOf({<<".">>}, txt, {w}))
                 e == IF frac = {} THEN w ELSE Greatest(frac)
                 n == ParseFloat(Slice(txt, at, e))
             IN  JsonOk(NumValue(IF at > p THEN 0 - n ELSE n), e)

RECURSIVE JsonValue(_, _)
RECURSIVE JsonMembers(_, _, _)
RECURSIVE JsonElements(_, _, _)
\* the value that starts at p
JsonValue(txt, p) ==
    LET c == CharAt(txt, p)
    IN  CASE c = "{" ->
                 LET q == SkipBlanks(txt, p + 1)
                 IN  IF CharAt(txt, q) = "}" THEN JsonOk(ObjValue(<<>>), q + 1)
                     ELSE JsonMembers(txt, q, <<>>)
          [] c = "[" ->
                 LET q == SkipBlanks(txt, p + 1)
                 IN  IF CharAt(txt, q) = "]" THEN JsonOk(ListValue(<<>>), q + 1)
                     ELSE JsonElements(txt, q, <<>>)
          [] c = "\"" -> JsonString(txt, p)
          [] c \in Digits \cup {"-"} -> JsonNumber(txt, p)
          [] MatchesAt(Chars("null"), txt, p) -> JsonOk(NullValue, p + 4)
          [] MatchesAt(Chars("true"), txt, p) -> JsonOk(BoolValue(TRUE), p + 4)
          [] MatchesAt(Chars("false"), txt, p) -> JsonOk(BoolValue(FALSE), p + 5)
          [] OTHER -> JsonFail

\* the members of an object, the first key at p
JsonMembers(txt, p, acc) ==
    LET key == JsonString(txt, p)
        colon == IF key.ok THEN SkipBlanks(txt, key.next) ELSE 0
        val == IF key.ok /\ CharAt(txt, colon) = ":"
               THEN JsonValue(txt, SkipBlanks(txt, colon + 1)) ELSE JsonFail
        after == IF val.ok THEN SkipBlanks(txt, val.next) ELSE 0
        pairs == Append(acc, <<key.val.s, val.val>>)
    IN  IF ~ val.ok THEN JsonFail
        ELSE IF CharAt(txt, after) = "}" THEN JsonOk(ObjValue(pairs), after + 1)
        ELSE IF CharAt(txt, after) = "," THEN JsonMembers(txt, SkipBlanks(txt, after + 1), pairs)
        ELSE JsonFail

\* the elements of a list, the first at p
JsonElements(txt, p, acc) ==
    LET val == JsonValue(txt, p)
        after == IF val.ok THEN SkipBlanks(txt, val.next) ELSE 0
        kids == Append(acc, val.val)
    IN  IF ~ val.ok THEN JsonFail
        ELSE IF CharAt(txt, after) = "]" THEN JsonOk(ListValue(kids), after + 1)
        ELSE IF CharAt(txt, after) = "," THEN JsonElements(txt, SkipBlanks(txt, after + 1), kids)
        ELSE JsonFail

\* json.loads(v)
JsonLoads(v) ==
    IF v.t # "str" THEN Raises("TypeError")
    ELSE LET r == JsonValue(v.s, SkipBlanks(v.s, 0))
         IN  IF r.ok /\ SkipBlanks(v.s, r.next) = Len(v.s) THEN Returns(r.val)
             ELSE Raises("JSONDecodeError")

\* v.get(key, default): the last pair with the key; AttributeError unless v is an object
DictGet(v, key, default) ==
    IF v.t # "obj" THEN Raises("AttributeError")
    ELSE LET at == {k \in 1..Len(v.kids) : v.kids[k][1] = Chars(key)}
         IN  Returns(IF at = {} THEN default ELSE v.kids[Greatest(at)][2])

(***************************************************************************)
(* _parse_serving_grams                                                    *)
(***************************************************************************)
\* serving grams when none is known
DefaultServing == 100 * One

\* the exceptions the try block of _parse_serving_grams passes over
PassedOver == {"JSONDecodeError", "TypeError", "ValueError"}

\* a try block ended without a return: an exception it passes over, or its last line
PassOn == [raised |-> "pass", value |-> NullValue]

\* the try block: Returns(v) is a return, PassOn goes on to the plain-text search,
\* Raises(e) leaves the function with an exception the block does not catch
ServingFromJson(serving_text) ==
    LET Metric(data) ==
            IF data.raised = "" THEN DictGet(data.value, "metric", ObjValue(<<>>)) ELSE data
        Quantity(metric) ==
            IF metric.raised = "" THEN DictGet(metric.value, "quantity", NullValue) ELSE metric
        Float(qty) ==
            IF qty.raised # "" THEN qty
            ELSE IF Truthy(qty.value) THEN ToFloat(qty.value)
            ELSE PassOn
        Caught(out) == IF out.raised \in PassedOver THEN PassOn ELSE out
    IN  OfValue(Caught, OfValue(Float, OfValue(Quantity, OfValue(Metric, JsonLoads(serving_text)))))

\* re.search(r'(\d+(?:\.\d+)?)\s*g\b', serving_text): the number, or <<>>
SearchGrams(txt) ==
    LET tail(e) == \E g \in OneOf({Word_g}, txt, BlankRun(txt, {e}, 0)) : AtWordBoundary(txt, g)
        starts == {s \in 0..Len(txt) : \E e \in NumberEnds(txt, {s}) : tail(e)}
    IN  IF starts = {} THEN <<>>
        ELSE LET s == Least(starts)
             IN  Slice(txt, s, Greatest({e \in NumberEnds(txt, {s}) : tail(e)}))

\* _parse_serving_grams
parse_serving_grams(serving_text) ==
    LET Grams(m) == IF m # <<>> THEN Returns(NumValue(ParseFloat(m)))
                    ELSE Returns(NumValue(DefaultServing))
        Parsed(js) == IF js # PassOn THEN js
                      ELSE IF serving_text.t # "str" THEN Raises("TypeError")
                      ELSE OfValue(Grams, SearchGrams(serving_text.s))
    IN  IF ~ Truthy(serving_text) THEN Returns(NumValue(DefaultServing))
        ELSE OfValue(Parsed, ServingFromJson(serving_text))

(***************************************************************************)
(* The adapters.  A NutrientRecord is a record of the description (a       *)
(* value), six nutrient amounts and serving_g (numbers in thousandths) and *)
(* the source.                                                             *)
(***************************************************************************)
\* grams in an ounce, in thousandths
OunceGrams == 28350

\* the limit search_foods passes to every adapter
AdapterLimit == 20

\* float(v) if v else 0
FloatOrZero(v) == IF Truthy(v) THEN ToFloat(v) ELSE Returns(NumValue(0))

\* the first exception among outcomes, or ""
RECURSIVE FirstRaised(_)
FirstRaised(outs) ==
    IF outs = <<>> THEN ""
    ELSE IF outs[1].raised # "" THEN outs[1].raised ELSE FirstRaised(Tail(outs))

\* results.append((row[0], float(row[1]), float(row[2]) if row[2] else 0, ..., source,
\* serving_g)): the tuple, or the exception a conversion raised
MakeRecord(row, source, serving) ==
    LET Record(outs) ==
            LET bad == FirstRaised(outs)
            IN  IF bad # "" THEN Raises(bad)
                ELSE [raised |-> "",
                      value |-> [description |-> row.description, calories |-> outs[2].value.n,
                                 protein |-> outs[3].value.n, carbs |-> outs[4].value.n,
                                 fat |-> outs[5].value.n, sodium |-> outs[6].value.n,
                                 fiber |-> outs[7].value.n, source |-> source,
                                 serving_g |-> outs[1].value.n]]
    IN  OfValue(Record, <<serving, ToFloat(row.calories), FloatOrZero(row.protein),
                          FloatOrZero(row.carbs), FloatOrZero(row.fat), FloatOrZero(row.sodium),
                          FloatOrZero(row.fiber)>>)

\* str.strip() of blanks
Strip(cs) ==
    LET keep == {k \in 1..Len(cs) : cs[k] \notin Blanks}
    IN  IF keep = {} THEN <<>> ELSE SubSeq(cs, Least(keep), Greatest(keep))

\* the serving size in grams of a row of _search_local_db
LocalServing(row, table_name) ==
    LET InGrams(raw) ==
            IF table_name = "usda_non_branded_column" \/ raw.raised # "" THEN raw
            ELSE IF Truthy(row.serving_size_unit) /\ row.serving_size_unit.t # "str"
                 THEN Raises("AttributeError")
            ELSE LET unit == IF Truthy(row.serving_size_unit)
                             THEN Strip(LowerText(row.serving_size_unit.s)) ELSE Word_g
                 IN  IF unit \in {Word_oz, Word_ounce, Word_ounces}
                     THEN Returns(NumValue((raw.value.n * OunceGrams) \div One))
                     ELSE raw
    IN  OfValue(InGrams, IF Truthy(row.serving_size) THEN ToFloat(row.serving_size)
                         ELSE Returns(NumValue(DefaultServing)))

\* WHERE description LIKE '%query%' LIMIT limit
LikeRows(rows, query, limit) ==
    LET hit == SelectSeq(rows, LAMBDA r : r.description.t = "str"
                                          /\ IsSubstring(LowerText(query), LowerText(r.description.s)))
    IN  SubSeq(hit, 1, Min(limit, Len(hit)))

\* the exceptions the loops over the rows pass over
RowErrors == {"ValueError", "TypeError"}

\* for row in cursor.fetchall() of _search_local_db: the results so far, or the
\* exception that leaves the loop
RECURSIVE LocalRows(_, _, _, _)
LocalRows(acc, rows, table_name, source) ==
    LET Row(row) ==
            LET Appended(rec) ==
                    IF rec.raised \in RowErrors THEN LocalRows(acc, Tail(rows), table_name, source)
                    ELSE IF rec.raised # "" THEN Raises(rec.raised)
                    ELSE LocalRows(Append(acc, rec.value), Tail(rows), table_name, source)
            IN  IF ~ (Truthy(row.description) /\ Truthy(row.calories))
                THEN LocalRows(acc, Tail(rows), table_name, source)
                ELSE OfValue(Appended, MakeRecord(row, source, LocalServing(row, table_name)))
    IN  IF rows = <<>> THEN Returns(acc)
        ELSE OfValue(Row, IF table_name = "usda_non_branded_column"
                          THEN [rows[1] EXCEPT !.sodium = StrValue("0")] ELSE rows[1])

\* tables of _search_local_db
LocalTables == <<
    [table_name |-> "usda_non_branded_column", source |-> "USDA"],
    [table_name |-> "usda_branded_column", source |-> "Branded"],
    [table_name |-> "menustat", source |-> "Restaurant"]
>>

\* for table_name, source in tables
RECURSIVE LocalTablesLoop(_, _, _, _, _)
LocalTablesLoop(acc, tables, db, query, limit) ==
    LET Fetched(out) ==
            IF out.raised # "" THEN out
            ELSE LocalTablesLoop(out.value, Tail(tables), db, query, limit)
    IN  IF tables = <<>> THEN Returns(acc)
        ELSE IF db.tables[tables[1].table_name].error
             THEN LocalTablesLoop(acc, Tail(tables), db, query, limit)
        ELSE OfValue(Fetched, LocalRows(acc, LikeRows(db.tables[tables[1].table_name].rows, query, limit),
                                        tables[1].table_name, tables[1].source))

\* _search_local_db
search_local_db(db, query, limit) ==
    IF ~ db.exists \/ ~ db.connects THEN Returns(<<>>)
    ELSE LocalTablesLoop(<<>>, LocalTables, db, query, limit)

\* for row in cursor.fetchall() of _search_opennutrition
RECURSIVE OpenNutritionRows(_, _)
OpenNutritionRows(acc, rows) ==
    LET Appended(rec) ==
            IF rec.raised \in RowErrors THEN OpenNutritionRows(acc, Tail(rows))
            ELSE IF rec.raised # "" THEN Raises(rec.raised)
            ELSE OpenNutritionRows(Append(acc, rec.value), Tail(rows))
    IN  IF rows = <<>> THEN Returns(acc)
        ELSE IF ~ (Truthy(rows[1].description) /\ rows[1].calories.t # "null")
             THEN OpenNutritionRows(acc, Tail(rows))
        ELSE OfValue(Appended, MakeRecord(rows[1], "OpenNutrition", parse_serving_grams(rows[1].serving)))

\* _search_opennutrition
search_opennutrition(db, query, limit) ==
    IF ~ db.exists \/ ~ db.connects \/ db.error THEN Returns(<<>>)
    ELSE OpenNutritionRows(<<>>, LikeRows(db.rows, query, limit))

\* _USDA_NUTRIENT_IDS
USDA_NUTRIENT_IDS == <<
    [id |-> 1008, name |-> "calories"],
    [id |-> 1003, name |-> "protein"],
    [id |-> 1005, name |-> "carbs"],
    [id |-> 1004, name |-> "fat"],
    [id |-> 1093, name |-> "sodium"],
    [id |-> 1079, name |-> "fiber"]
>>

\* the exceptions the try block of _search_usda_api returns [] for
FetchErrors == {"URLError", "HTTPError", "OSError", "JSONDecodeError", "ValueError"}

\* iter(v): the elements of a list, the keys of an object, the characters of a text
Iterate(v) ==
    CASE v.t = "list" -> Returns(v.kids)
      [] v.t = "obj" -> Returns([k \in 1..Len(v.kids) |-> CharsValue(v.kids[k][1])])
      [] v.t = "str" -> Returns([k \in 1..Len(v.s) |-> CharsValue(<<v.s[k]>>)])
      [] OTHER -> Raises("TypeError")

\* for nutrient in food.get('foodNutrients', []): the nutrients dict, as a function
\* of the nutrient names ("absent" where the dict has no entry)
RECURSIVE UsdaNutrients(_, _)
UsdaNutrients(acc, list) ==
    LET Stored(val) == IF Truthy(val.value) THEN val.value ELSE NumValue(0)
        Known(nid) ==
            LET known == {k \in 1..Len(USDA_NUTRIENT_IDS) :
                             nid.value.t \in {"num", "bool"}
                             /\ nid.value.n = USDA_NUTRIENT_IDS[k].id * One}
            IN  IF nid.raised # "" THEN [raised |-> nid.raised, value |-> acc]
                ELSE IF nid.value.t \in {"list", "obj"} THEN [raised |-> "TypeError", value |-> acc]
                ELSE IF known = {} THEN UsdaNutrients(acc, Tail(list))
                ELSE UsdaNutrients(
                         [acc EXCEPT ![USDA_NUTRIENT_IDS[Least(known)].name] =
                                         OfValue(Stored, DictGet(list[1], "value", NumValue(0)))],
                         Tail(list))
    IN  IF list = <<>> THEN [raised |-> "", value |-> acc]
        ELSE OfValue(Known, DictGet(list[1], "nutrientId", NullValue))

\* the nutrients dict with no entry
NoNutrients == [name \in {USDA_NUTRIENT_IDS[k].name : k \in 1..Len(USDA_NUTRIENT_IDS)} |-> NullValue]

\* nutrients.get(name, 0)
NutrientGet(nutrients, name) ==
    IF nutrients[name].t = "null" THEN NumValue(0) ELSE nutrients[name]

\* the body of the loop over data.get('foods', []) for one food: Returns(<<record>>),
\* Returns(<<>>) for continue, or the exception raised
UsdaFood(food) ==
    LET Serving(size) == ToFloat(IF Truthy(size.value) THEN size.value ELSE NumValue(DefaultServing))
        Listed(rec) == IF rec.raised # "" THEN rec ELSE Returns(<<rec.value>>)
        Record(row) ==
            IF ~ Truthy(row.calories) THEN Returns(<<>>)
            ELSE OfValue(Listed,
                         MakeRecord(row, "USDA-API",
                                    OfValue(Serving, DictGet(food, "servingSize", NumValue(DefaultServing)))))
        Items(listed) == IF listed.raised = "" THEN Iterate(listed.value) ELSE listed
        Nutrients(items) ==
            IF items.raised = "" THEN UsdaNutrients(NoNutrients, items.value) ELSE items
        Described(description) ==
            LET Gathered(nutrients) ==
                    IF nutrients.raised # "" THEN Raises(nutrients.raised)
                    ELSE OfValue(Record,
                                 [description |-> description.value,
                                  calories |-> NutrientGet(nutrients.value, "calories"),
                                  protein |-> NutrientGet(nutrients.value, "protein"),
                                  carbs |-> NutrientGet(nutrients.value, "carbs"),
                                  fat |-> NutrientGet(nutrients.value, "fat"),
                                  sodium |-> NutrientGet(nutrients.value, "sodium"),
                                  fiber |-> NutrientGet(nutrients.value, "fiber")])
            IN  IF description.raised # "" THEN Raises(description.raised)
                ELSE IF ~ Truthy(description.value) THEN Returns(<<>>)
                ELSE OfValue(Gathered,
                             OfValue(Nutrients,
                                     OfValue(Items, DictGet(food, "foodNutrients", ListValue(<<>>)))))
    IN  OfValue(Described, DictGet(food, "description", CharsValue(<<>>)))

\* for food in data.get('foods', [])
RECURSIVE UsdaFoods(_, _)
UsdaFoods(acc, foods) ==
    LET Added(one) == IF one.raised # "" THEN one ELSE UsdaFoods(acc \o one.value, Tail(foods))
    IN  IF foods = <<>> THEN Returns(acc)
        ELSE OfValue(Added, UsdaFood(foods[1]))

\* _search_usda_api; service is the key, what urlopen and read do, and the body sent
search_usda_api(service, query, limit) ==
    LET Foods(list) == IF list.raised # "" THEN Raises(list.raised) ELSE UsdaFoods(<<>>, list.value)
        Items(foods) == IF foods.raised = "" THEN Iterate(foods.value) ELSE foods
        Loaded(data) ==
            IF data.raised \in FetchErrors THEN Returns(<<>>)
            ELSE OfValue(Foods, OfValue(Items, DictGet(data.value, "foods", ListValue(<<>>))))
    IN  IF ~ service.has_key THEN Returns(<<>>)
        ELSE OfValue(Loaded, IF service.network # "" THEN Raises(service.network)
                             ELSE JsonLoads(service.body))

(***************************************************************************)
(* search_foods and calculate_meal_macros                                  *)
(***************************************************************************)
\* the rank of a description that does not hold the query
AbsentRank == 1000

\* str.find: the position of the first occurrence, or -1
Find(pat, txt) ==
    LET at == {p \in 0..(Len(txt) - Len(pat)) : MatchesAt(pat, txt, p)}
    IN  IF at = {} THEN -1 ELSE Least(at)

\* the sort key of search_foods
RelevanceKey(rec, query_lower) ==
    LET at == Find(query_lower, LowerText(rec.description.s))
    IN  <<IF at >= 0 THEN at ELSE AbsentRank, Len(rec.description.s)>>

\* tuple comparison of two keys
KeyBefore(a, b) == a[1] < b[1] \/ (a[1] = b[1] /\ a[2] < b[2])

\* list.sort is stable: a <<key, record>> pair goes after the pairs whose key is
\* not larger
RECURSIVE InsertByKey(_, _)
InsertByKey(sorted, x) ==
    IF sorted = <<>> THEN <<x>>
    ELSE IF KeyBefore(x[1], sorted[1][1]) THEN <<x>> \o sorted
    ELSE <<sorted[1]>> \o InsertByKey(Tail(sorted), x)

RECURSIVE SortKeyed(_)
SortKeyed(pairs) ==
    IF pairs = <<>> THEN <<>>
    ELSE InsertByKey(SortKeyed(SubSeq(pairs, 1, Len(pairs) - 1)), pairs[Len(pairs)])

\* all_results.sort(key=lambda x: ...)
SortByRelevance(recs, query_lower) ==
    LET sorted == SortKeyed([k \in 1..Len(recs) |-> <<RelevanceKey(recs[k], query_lower), recs[k]>>])
    IN  [k \in 1..Len(sorted) |-> sorted[k][2]]

\* xs[:n]
Prefix(xs, n) ==
    IF n >= 0 THEN SubSeq(xs, 1, Min(n, Len(xs))) ELSE SubSeq(xs, 1, Max(0, Len(xs) + n))

\* _SOURCE_FUNCTION_NAMES
SOURCE_FUNCTION_NAMES == {"local_db", "opennutrition", "usda_api"}

\* the totals calculate_meal_macros starts from
ZeroTotals ==
    [calories |-> 0, protein |-> 0, carbs |-> 0, fat |-> 0, sodium |-> 0, fiber |-> 0,
     items |-> <<>>, unrecognized |-> <<>>]

\* a multiplier that takes every quantity as grams
Multiplier_AllGrams(quantity, unit, serving_g) ==
    IF serving_g > 0 THEN (quantity * One) \div serving_g ELSE quantity \div 100

\* the multiplier of a resolved mention, in thousandths
Multiplier(quantity, unit, serving_g) ==
    IF unit = Word_g
    THEN IF serving_g > 0 THEN (quantity * One) \div serving_g ELSE quantity \div 100
    ELSE IF unit = Word_oz
    THEN IF serving_g > 0 THEN (((quantity * OunceGrams) \div One) * One) \div serving_g
         ELSE quantity
    ELSE quantity

\* amount * multiplier
Times(amount, mult) == (amount * mult) \div One

\* the unit of a mention: a pair counts as servings
MentionUnit(item) == IF item.arity = 3 THEN item.unit ELSE Word_servings

\* the totals after a mention resolved to food_data
AddToTotals(tot, item, food_data) ==
    LET m == Multiplier(item.quantity, MentionUnit(item), food_data.serving_g)
    IN  [calories |-> tot.calories + Times(food_data.calories, m),
         protein |-> tot.protein + Times(food_data.protein, m),
         carbs |-> tot.carbs + Times(food_data.carbs, m),
         fat |-> tot.fat + Times(food_data.fat, m),
         sodium |-> tot.sodium + Times(food_data.sodium, m),
         fiber |-> tot.fiber + Times(food_data.fiber, m),
         items |-> Append(tot.items, [name |-> food_data.description, quantity |-> item.quantity,
                                      unit |-> MentionUnit(item), source |-> food_data.source]),
         unrecognized |-> tot.unrecognized]

(***************************************************************************)
(* The stores, the service and the calls the model draws from              *)
(***************************************************************************)
\* a row of a table of the local database
LocalRow(description, calories, serving_size, serving_size_unit) ==
    [description |-> StrValue(description), calories |-> calories, protein |-> NumValue(2 * One),
     carbs |-> NumValue(28 * One), fat |-> NullValue, sodium |-> NumValue(5 * One),
     fiber |-> StrValue("0.4"), serving_size |-> serving_size, serving_size_unit |-> serving_size_unit]

NoTable == [error |-> TRUE, rows |-> <<>>]

EmptyTable == [error |-> FALSE, rows |-> <<>>]

LocalTablesOf(non_branded, branded, menustat) ==
    [n \in {"usda_non_branded_column", "usda_branded_column", "menustat"} |->
        CASE n = "usda_non_branded_column" -> non_branded
          [] n = "usda_branded_column" -> branded
          [] OTHER -> menustat]

\* a description longer than any rank str.find can give a short one
LongDescription == [i \in 1..(AbsentRank + 1) |-> "x"] \o Chars(" rice")

\* what DB_PATH can be: no file; a file sqlite3 cannot open; a database with and without its
\* tables; rows with odd serving sizes; a row whose unit is a number; a row with a
\* very long description; a catalog of chicken breast (165 kcal per 100 g) and rice
\* (200 kcal per 240 g)
LocalDbs == <<
    [exists |-> FALSE, connects |-> FALSE, tables |-> LocalTablesOf(NoTable, NoTable, NoTable)],
    [exists |-> TRUE, connects |-> FALSE, tables |-> LocalTablesOf(NoTable, NoTable, NoTable)],
    [exists |-> TRUE, connects |-> TRUE,
     tables |-> LocalTablesOf(
        [error |-> FALSE,
         rows |-> <<LocalRow("Rice, white, cooked", NumValue(130 * One), NumValue(158 * One), NullValue),
                    LocalRow("Egg, whole", NumValue(143 * One), NullValue, NullValue),
                    LocalRow("Rice water", NumValue(0), NumValue(100 * One), NullValue)>>],
        [error |-> FALSE,
         rows |-> <<LocalRow("Fried Rice", NumValue(163 * One), NumValue(2 * One), StrValue("OZ ")),
                    LocalRow("RICE", NumValue(35 * One), NumValue(50 * One), StrValue("g"))>>],
        NoTable)],
    [exists |-> TRUE, connects |-> TRUE,
     tables |-> LocalTablesOf(
        [error |-> FALSE,
         rows |-> <<LocalRow("Rice flour", NumValue(366 * One), StrValue("abc"), NullValue),
                    LocalRow("Rice bran", NumValue(316 * One), NumValue(0 - 50 * One), NullValue),
                    LocalRow("Rice noodle", NumValue(108 * One), StrValue("0"), NullValue)>>],
        [error |-> FALSE,
         rows |-> <<LocalRow("Rice milk", NumValue(47 * One), NumValue(240 * One), StrValue("ml"))>>],
        EmptyTable)],
    [exists |-> TRUE, connects |-> TRUE,
     tables |-> LocalTablesOf(
        EmptyTable,
        [error |-> FALSE,
         rows |-> <<LocalRow("Rice pudding", NumValue(118 * One), NumValue(113 * One), NumValue(7 * One))>>],
        [error |-> FALSE,
         rows |-> <<LocalRow("Egg sandwich", NumValue(300 * One), NumValue(5 * One), StrValue("oz"))>>])],
    [exists |-> TRUE, connects |-> TRUE,
     tables |-> LocalTablesOf(
        EmptyTable,
        [error |-> FALSE,
         rows |-> <<[LocalRow("", NumValue(90 * One), NumValue(30 * One), StrValue("g"))
                        EXCEPT !.description = CharsValue(LongDescription)]>>],
        EmptyTable)],
    [exists |-> TRUE, connects |-> TRUE,
     tables |-> LocalTablesOf(
        [error |-> FALSE,
         rows |-> <<LocalRow("Chicken breast", NumValue(165 * One), NumValue(100 * One), NullValue),
                    LocalRow("Rice", NumValue(200 * One), NumValue(240 * One), NullValue)>>],
        EmptyTable,
        EmptyTable)]
>>

\* a row of the opennutrition table
OpenNutritionRow(name, calories, serving) ==
    [description |-> StrValue(name), calories |-> calories, protein |-> NumValue(3 * One),
     carbs |-> StrValue("23.5"), fat |-> NumValue(One), sodium |-> NullValue,
     fiber |-> NumValue(2 * One), serving |-> serving]

\* what OPENNUTRITION_DB_PATH can be: no file; a database without the table; readable servings;
\* servings that read as nothing or as no positive amount; a serving that is JSON
\* but no object
OpenNutritionDbs == <<
    [exists |-> FALSE, connects |-> FALSE, error |-> FALSE, rows |-> <<>>],
    [exists |-> TRUE, connects |-> TRUE, error |-> TRUE, rows |-> <<>>],
    [exists |-> TRUE, connects |-> TRUE, error |-> FALSE,
     rows |-> <<OpenNutritionRow("Rice, brown", NumValue(112 * One),
                                 StrValue("{\"metric\": {\"quantity\": 85, \"unit\": \"g\"}}")),
                OpenNutritionRow("Egg", NumValue(155 * One), StrValue("50 g")),
                OpenNutritionRow("Rice paper", NumValue(0), StrValue("")),
                OpenNutritionRow("Rice wine", NullValue, StrValue("100g"))>>],
    [exists |-> TRUE, connects |-> TRUE, error |-> FALSE,
     rows |-> <<OpenNutritionRow("Rice cracker", NumValue(35 * One), StrValue("one cup")),
                OpenNutritionRow("Rice puffs", StrValue("n/a"), StrValue("30 g")),
                OpenNutritionRow("Rice syrup", NumValue(60 * One), StrValue("0 g")),
                OpenNutritionRow("Rice cake", NumValue(35 * One),
                                 StrValue("{\"metric\": {\"quantity\": -9}}"))>>],
    [exists |-> TRUE, connects |-> TRUE, error |-> FALSE,
     rows |-> <<OpenNutritionRow("Egg white", NumValue(52 * One), StrValue("33 g")),
                OpenNutritionRow("Rice bread", NumValue(70 * One), StrValue("[1, 2]"))>>]
>>

\* USDA_API_KEY and what the service does: no key; no connection; a timeout
\* (socket.timeout is an OSError); a body that is no JSON; a usual body; a body with a
\* negative servingSize; a body that is JSON but no object
UsdaServices == <<
    [has_key |-> FALSE, network |-> "", body |-> StrValue("")],
    [has_key |-> TRUE, network |-> "URLError", body |-> StrValue("")],
    [has_key |-> TRUE, network |-> "OSError", body |-> StrValue("")],
    [has_key |-> TRUE, network |-> "", body |-> StrValue("<html>Bad Gateway</html>")],
    [has_key |-> TRUE, network |-> "",
     body |-> StrValue("{\"foods\": [{\"description\": \"Rice, white\", \"foodNutrients\": [{\"nutrientId\": 1008, \"value\": 130}, {\"nutrientId\": 1003, \"value\": 2.7}, {\"nutrientId\": 2000, \"value\": 1}], \"servingSize\": 50}, {\"description\": \"Risotto\", \"foodNutrients\": [{\"nutrientId\": 1008, \"value\": 166}]}, {\"description\": \"Water\", \"foodNutrients\": []}]}")],
    [has_key |-> TRUE, network |-> "",
     body |-> StrValue("{\"foods\": [{\"description\": \"Rice, wild\", \"foodNutrients\": [{\"nutrientId\": 1008, \"value\": 101}], \"servingSize\": -20}]}")],
    [has_key |-> TRUE, network |-> "", body |-> StrValue("[1, 2]")]
>>

\* FOOD_SOURCES: the default, another order, and a name no adapter has
FoodSourceLists == {
    <<"local_db", "opennutrition", "usda_api">>,
    <<"usda_api", "local_db">>,
    <<"opennutrition", "fatsecret">>
}

\* the queries and limits search_foods is called with
Queries == {Chars("rice"), Chars("Egg")}

Limits == {1, 2, 5}

\* largest number of mentions calculate_meal_macros is given
MaxMentions == 2

\* the mentions: triples and a pair
Mentions == {
    [name |-> Chars("rice"), quantity |-> 200 * One, unit |-> Word_g, arity |-> 3],
    [name |-> Chars("rice"), quantity |-> 6 * One, unit |-> Word_oz, arity |-> 3],
    [name |-> Chars("egg"), quantity |-> 2 * One, unit |-> <<>>, arity |-> 2],
    [name |-> Chars("tofu"), quantity |-> One \div 2, unit |-> Word_cups, arity |-> 3]
}

RECURSIVE MentionListsUpTo(_)
MentionListsUpTo(n) ==
    IF n = 0 THEN {<<>>}
    ELSE MentionListsUpTo(n - 1) \cup
         {Append(l, m) : l \in {x \in MentionListsUpTo(n - 1) : Len(x) = n - 1}, m \in Mentions}

MentionLists == MentionListsUpTo(MaxMentions)

\* the texts analyze_meal is given
MealTexts == {
    Chars("200g chicken breast and a cup of rice"),
    Chars("200g Chicken Breast"),
    Chars("half a cup of rice"),
    Chars("two eggs and 3 oz steak"),
    Chars("rice"),
    Chars("water")
}

\* the names parse_food_items finds in the texts analyze_meal is given
MealNames == {Chars("chicken breast"), Chars("rice"), Chars("egg"), Chars("steak")}

(***************************************************************************)
(* State                                                                   *)
(***************************************************************************)
VARIABLES
    templates,    \* the catalog load_meal_templates returns
    profile,      \* DIETARY_PROFILE
    month,        \* datetime.now().month
    pc,           \* where the call in progress stands
    caller,       \* who called filter_templates: "direct" or "suggest"
    meal_type,    \* the meal_type filter_templates was given ("" is None)
    count,        \* suggest_meals' count
    filtered,     \* filter_templates' filtered, as catalog positions
    relaxed,      \* filter_templates' relaxed
    relax_i,      \* position of the relaxation loop in relaxation_order
    remaining,    \* suggest_meals' remaining
    history,      \* suggest_meals' history
    scored,       \* suggest_meals' scored: <<catalog position, score>> pairs
    results,      \* the list suggest_meals returns
    text,         \* the text parse_food_items was given
    parse_pc,     \* where parse_food_items stands
    food_items,   \* parse_food_items' food_items
    found_positions,  \* parse_food_items' found_positions
    before_text,  \* the before_text _extract_quantity_and_unit was given
    food_text,    \* the food_text _extract_quantity_and_unit was given
    extract_pc,   \* where _extract_quantity_and_unit stands
    extracted,    \* the (quantity, unit) _extract_quantity_and_unit returns
    local_db,     \* which of LocalDbs is the file at DB_PATH
    opennutrition_db,  \* which of OpenNutritionDbs is the file at OPENNUTRITION_DB_PATH
    usda_service, \* which of UsdaServices is USDA_API_KEY and the USDA service
    food_sources, \* FOOD_SOURCES
    search_pc,    \* where search_foods stands
    query,        \* search_foods' query
    limit,        \* search_foods' limit
    source_i,     \* position of the loop over FOOD_SOURCES
    all_results,  \* search_foods' all_results
    search_results,  \* the list search_foods returns
    macros_pc,    \* where calculate_meal_macros stands
    mentions,     \* calculate_meal_macros' food_items
    item_i,       \* position of the loop over food_items
    totals,       \* calculate_meal_macros' totals
    multiplier,   \* calculate_meal_macros' multiplier
    raised,       \* the exception that left search_foods
    today,        \* datetime.now().strftime('%Y-%m-%d'), as a day number
    diet_logged,  \* how many meals the diet logs hold
    names,        \* the directory: the inode _CACHE_FILE and _CACHE_FILE + '.tmp' name (0: none)
    inodes,       \* the content of each inode, as chunks
    hist_pc,      \* where each process stands in get_history
    force_refresh,  \* get_history's force_refresh, by process
    days,         \* get_history's days, by process
    fd,           \* the inode of the file a process has open (0: none)
    written,      \* how many chunks json.dump has written, by process
    built,        \* get_history's history, by process
    returned,     \* what get_history returned, by process
    diet_file,    \* the lines of the date's diet log (<<>>: no file)
    meals_logged, \* the results passed to log_meal_to_file so far
    totals_calls, \* how often update_daily_totals was called
    last_call,    \* the last call on the diet log
    dietary_profile, \* the keys of DIETARY_PROFILE whose value is set (truthy)
    learning_state,  \* the content of the gradual learning state file
    prompts,      \* the prompts get_next_prompt has returned, in order
    next_prompt,  \* the key of what get_next_prompt returned last ("": not called)
    exercises,    \* pr_history.json's 'exercises', by exercise name
    recorded,     \* the name the last record_exercise call was for ("": no call)
    pr_result,    \* what the last record_exercise call returned
    score_call,   \* the arguments of a score_template call and its random.random()
    score_pc,     \* where the score_template call stands
    score_factors, \* the ten factors the call computed
    score         \* the score the call returned

planner_vars == <<templates, profile, month, pc, caller, meal_type, count, filtered,
                  relaxed, relax_i, remaining, history, scored, results>>

parser_vars == <<text, parse_pc, food_items, found_positions>>

extract_vars == <<before_text, food_text, extract_pc, extracted>>

lookup_vars == <<local_db, opennutrition_db, usda_service, food_sources, search_pc, query, limit,
                 source_i, all_results, search_results, macros_pc, mentions, item_i, totals,
                 multiplier, raised>>

cache_vars == <<today, diet_logged, names, inodes, hist_pc, force_refresh, days, fd, written,
                built, returned>>

diet_vars == <<diet_file, meals_logged, totals_calls, last_call>>

\* the subsystems after the history cache
prompt_vars == <<dietary_profile, learning_state, prompts, next_prompt>>

overload_vars == <<exercises, recorded, pr_result>>

score_vars == <<score_call, score_pc, score_factors, score>>

rest_vars == <<diet_vars, prompt_vars, overload_vars, score_vars>>

later_vars == <<cache_vars, rest_vars>>

vars == <<planner_vars, parser_vars, extract_vars, lookup_vars, later_vars>>

env == <<templates, profile, month, parser_vars, extract_vars, lookup_vars, later_vars>>

\* _extract_quantity_and_unit is not in use
ExtractIdle ==
    /\ before_text = <<>>
    /\ food_text = <<>>
    /\ extract_pc = "idle"
    /\ extracted = NoMatch

\* nothing is stored or configured and no food is looked up
LookupIdle ==
    /\ local_db = 1
    /\ opennutrition_db = 1
    /\ usda_service = 1
    /\ food_sources = <<>>
    /\ search_pc = "idle"
    /\ query = <<>>
    /\ limit = 0
    /\ source_i = 1
    /\ all_results = <<>>
    /\ search_results = <<>>
    /\ macros_pc = "idle"
    /\ mentions = <<>>
    /\ item_i = 1
    /\ totals = ZeroTotals
    /\ multiplier = 0
    /\ raised = ""

\* largest number of processes that call get_history at once
MaxProcs == 2

Procs == 1..MaxProcs

\* a history that holds nothing yet
NoBuilt == [logged |-> 0, days_analyzed |-> 0, built_date |-> 0]

\* no cache file exists and get_history is not in use
CacheIdle ==
    /\ today = 1
    /\ diet_logged = 0
    /\ names = [cache |-> 0, tmp |-> 0]
    /\ inodes = [i \in 1..(MaxProcs + 2) |-> <<>>]
    /\ hist_pc = [p \in Procs |-> "idle"]
    /\ force_refresh = [p \in Procs |-> FALSE]
    /\ days = [p \in Procs |-> 0]
    /\ fd = [p \in Procs |-> 0]
    /\ written = [p \in Procs |-> 0]
    /\ built = [p \in Procs |-> NoBuilt]
    /\ returned = [p \in Procs |-> NoBuilt]

\* no diet log exists and nothing was called on it
DietIdle ==
    /\ diet_file = <<>>
    /\ meals_logged = <<>>
    /\ totals_calls = 0
    /\ last_call = "none"

\* the subsystems after the history cache are not in use
\* _DEFAULT_DIETARY_PROFILE and the state _load_state gives when no state file exists
PromptIdle ==
    /\ dietary_profile = {"meal_variety"}
    /\ learning_state = [total_meals_logged |-> 0, last_prompt_at |-> 0,
                         meal_plan_requested |-> FALSE, asked |-> {}]
    /\ prompts = <<>>
    /\ next_prompt = ""

\* the exercise names record_exercise is called with
ExerciseNames == {"Bench Press", "Squat"}

\* a name that is not in 'exercises'
Untracked ==
    [tracked |-> FALSE, pr_weight |-> 0, pr_volume |-> 0, pr_reps |-> 0, history |-> <<>>]

\* the value of a previous_best_* that is None; a number n is <<n>>
None == <<>>

\* record_exercise's result before the PRs are looked at
NoPr ==
    [is_weight_pr |-> FALSE, is_volume_pr |-> FALSE, is_reps_pr |-> FALSE,
     previous_best_weight |-> None, previous_best_volume |-> None, previous_best_reps |-> None]

\* no pr_history.json exists and record_exercise was not called
OverloadIdle ==
    /\ exercises = [name \in ExerciseNames |-> Untracked]
    /\ recorded = ""
    /\ pr_result = NoPr

\* score_template is not called by itself
ScoreIdle ==
    /\ score_call = <<>>
    /\ score_pc = "idle"
    /\ score_factors = <<>>
    /\ score = 0

RestIdle == DietIdle /\ PromptIdle /\ OverloadIdle /\ ScoreIdle

\* the subsystems other than the meal planner, the parser and the food lookup are not in use
LaterIdle == CacheIdle /\ RestIdle

\* the value of a local that holds nothing yet
NoRemaining == get_remaining_macros([calories |-> 0, protein |-> 0, carbs |-> 0, fat |-> 0, sodium |-> 0], 0)

NoHistory ==
    [detected_cuisines |-> {}, recent_food_names |-> <<>>,
     today_food_names |-> <<>>, typical_calories |-> <<>>]

Init ==
    /\ templates \in Catalogs
    /\ profile \in Profiles
    /\ month \in Months
    /\ pc = "idle"
    /\ caller = ""
    /\ meal_type = ""
    /\ count = 0
    /\ filtered = <<>>
    /\ relaxed = {}
    /\ relax_i = 1
    /\ remaining = NoRemaining
    /\ history = NoHistory
    /\ scored = <<>>
    /\ results = <<>>
    /\ text = <<>>
    /\ parse_pc = "idle"
    /\ food_items = <<>>
    /\ found_positions = <<>>
    /\ ExtractIdle
    /\ LookupIdle
    /\ LaterIdle

Ctx == FilterContext(profile, meal_type, month)

(***************************************************************************)
(* filter_templates                                                        *)
(***************************************************************************)
\* a direct call filter_templates(templates, profile, mt)
CallFilterTemplates(mt) ==
    /\ pc = "idle"
    /\ pc' = "first_pass"
    /\ caller' = "direct"
    /\ meal_type' = mt
    /\ count' = 0
    /\ filtered' = <<>>
    /\ relaxed' = {}
    /\ relax_i' = 1
    /\ remaining' = NoRemaining
    /\ history' = NoHistory
    /\ scored' = <<>>
    /\ results' = <<>>
    /\ UNCHANGED env

\* First pass: hard + soft filters
FirstPass ==
    /\ pc = "first_pass"
    /\ filtered' = FilterPass(templates, {}, Ctx)
    /\ relaxed' = {}
    /\ relax_i' = 1
    /\ pc' = "relax_loop"
    /\ UNCHANGED <<env, caller, meal_type, count, remaining, history, scored, results>>

\* one iteration of  for relax_key in relaxation_order  that does not break
RelaxNext ==
    /\ pc = "relax_loop"
    /\ relax_i <= Len(relaxation_order)
    /\ ~ EnoughResults(filtered)
    /\ relaxed' = relaxed \cup {relaxation_order[relax_i]}
    /\ filtered' = FilterPass(templates, relaxed', Ctx)
    /\ relax_i' = relax_i + 1
    /\ UNCHANGED <<env, pc, caller, meal_type, count, remaining, history, scored, results>>

\* the loop is left (break or exhausted) and filter_templates returns
FilterReturn ==
    /\ pc = "relax_loop"
    /\ relax_i > Len(relaxation_order) \/ EnoughResults(filtered)
    /\ pc' = IF caller = "suggest" THEN "score" ELSE "filter_returned"
    /\ UNCHANGED <<env, caller, meal_type, count, filtered, relaxed, relax_i,
                   remaining, history, scored, results>>

(***************************************************************************)
(* suggest_meals                                                           *)
(***************************************************************************)
\* suggest_meals(meal_type=mt, count=n) at the given hour of the given day
CallSuggestMeals(mt, n, hour, day) ==
    /\ pc = "idle"
    /\ caller' = "suggest"
    /\ count' = n
    /\ filtered' = <<>>
    /\ relaxed' = {}
    /\ relax_i' = 1
    /\ scored' = <<>>
    /\ results' = <<>>
    /\ IF templates = <<>>
       THEN /\ pc' = "suggest_returned"
            /\ meal_type' = mt
            /\ remaining' = NoRemaining
            /\ history' = NoHistory
       ELSE /\ pc' = "first_pass"
            /\ meal_type' = IF mt = "" THEN InferMealType(hour) ELSE mt
            /\ remaining' = get_remaining_macros(day.consumed, hour)
            /\ history' = day.history
    /\ UNCHANGED env

\* for t in filtered: scored.append((t, score_template(...)))
ScoreFiltered ==
    /\ pc = "score"
    /\ \E rnd \in [1..Len(filtered) -> RandomValues] :
          scored' = [k \in 1..Len(filtered) |->
                        <<filtered[k],
                          score_template(templates[filtered[k]], remaining, profile, history, rnd[k])>>]
    /\ pc' = "sort"
    /\ UNCHANGED <<env, caller, meal_type, count, filtered, relaxed, relax_i,
                   remaining, history, results>>

\* scored.sort(key=lambda x: x[1], reverse=True)
SortScored ==
    /\ pc = "sort"
    /\ scored' = SortByScoreDesc(scored)
    /\ pc' = "top_n"
    /\ UNCHANGED <<env, caller, meal_type, count, filtered, relaxed, relax_i,
                   remaining, history, results>>

\* the entry suggest_meals builds for one scored template
ResultEntry(pair) ==
    [template |-> templates[pair[1]],
     score |-> Round3(pair[2]),
     remaining |-> remaining,
     relaxed_filters |-> relaxed]

\* Return top N
ReturnTopN ==
    /\ pc = "top_n"
    /\ results' = [k \in 1..Len(TopN(scored, count)) |-> ResultEntry(TopN(scored, count)[k])]
    /\ pc' = "suggest_returned"
    /\ UNCHANGED <<env, caller, meal_type, count, filtered, relaxed, relax_i,
                   remaining, history, scored>>

\* the caller takes the returned value and the call's locals are gone
Finish ==
    /\ pc \in {"filter_returned", "suggest_returned"}
    /\ pc' = "idle"
    /\ caller' = ""
    /\ meal_type' = ""
    /\ count' = 0
    /\ filtered' = <<>>
    /\ relaxed' = {}
    /\ relax_i' = 1
    /\ remaining' = NoRemaining
    /\ history' = NoHistory
    /\ scored' = <<>>
    /\ results' = <<>>
    /\ UNCHANGED env

\* the meal_type arguments tried
MealTypeArgs == {"", "Dinner", "breakfast"}

Next ==
    \/ \E mt \in MealTypeArgs : CallFilterTemplates(mt)
    \/ FirstPass
    \/ RelaxNext
    \/ FilterReturn
    \/ \E mt \in {"", "Lunch"}, n \in 0..MaxCount, hour \in Hours, day \in DayStates :
           CallSuggestMeals(mt, n, hour, day)
    \/ ScoreFiltered
    \/ SortScored
    \/ ReturnTopN
    \/ Finish

Spec == Init /\ [][Next]_vars

(***************************************************************************)
(* parse_food_items                                                        *)
(***************************************************************************)
\* _DEFAULT_DIETARY_PROFILE
DefaultProfile ==
    [allergies |-> <<>>, dietary_restrictions |-> <<>>, dislikes |-> <<>>,
     cuisine_preferences |-> <<>>, cooking_skill |-> "", budget |-> "",
     meal_variety |-> "balanced"]

\* parse_food_items(text) has just been called; the meal planner is not in use
InitParse ==
    /\ text \in Texts
    /\ parse_pc = "phrases"
    /\ food_items = <<>>
    /\ found_positions = <<>>
    /\ templates = <<>>
    /\ profile = DefaultProfile
    /\ month = 1
    /\ pc = "idle"
    /\ caller = ""
    /\ meal_type = ""
    /\ count = 0
    /\ filtered = <<>>
    /\ relaxed = {}
    /\ relax_i = 1
    /\ remaining = NoRemaining
    /\ history = NoHistory
    /\ scored = <<>>
    /\ results = <<>>
    /\ ExtractIdle
    /\ LookupIdle
    /\ LaterIdle

\* First check for multi-word phrases (all occurrences)
ScanPhrases ==
    /\ parse_pc = "phrases"
    /\ LET acc == ScanEntries([food_items |-> food_items, found_positions |-> found_positions],
                              food_phrases, LowerText(text))
       IN  /\ food_items' = acc.food_items
           /\ found_positions' = acc.found_positions
    /\ parse_pc' = "keywords"
    /\ UNCHANGED <<planner_vars, text, extract_vars, lookup_vars, later_vars>>

\* the keyword pass that starts from an empty found_positions
ScanKeywords_FreshPositions ==
    /\ parse_pc = "keywords"
    /\ LET acc == ScanEntries([food_items |-> food_items, found_positions |-> <<>>],
                              food_keywords, LowerText(text))
       IN  /\ food_items' = acc.food_items
           /\ found_positions' = found_positions \o acc.found_positions
    /\ parse_pc' = "returned"
    /\ UNCHANGED <<planner_vars, text, extract_vars, lookup_vars, later_vars>>

\* Then check for single keywords (all occurrences); parse_food_items returns
ScanKeywords ==
    /\ parse_pc = "keywords"
    /\ LET acc == ScanEntries([food_items |-> food_items, found_positions |-> found_positions],
                              food_keywords, LowerText(text))
       IN  /\ food_items' = acc.food_items
           /\ found_positions' = acc.found_positions
    /\ parse_pc' = "returned"
    /\ UNCHANGED <<planner_vars, text, extract_vars, lookup_vars, later_vars>>

NextParse ==
    \/ ScanPhrases
    \/ ScanKeywords

SpecParse == InitParse /\ [][NextParse]_vars

(***************************************************************************)
(* _extract_quantity_and_unit                                              *)
(***************************************************************************)
\* the longest run of blanks put between the start and the end of a before_text
MaxGap == 41

\* a run of n blanks
RECURSIVE BlanksOf(_)
BlanksOf(n) == IF n = 0 THEN <<>> ELSE <<" ">> \o BlanksOf(n - 1)

\* how a before_text starts
Leads == {
    <<>>,
    <<"2", "0", "0", "g">>,
    <<"t", "w", "o">>,
    <<"3", " ", "o", "z">>,
    <<"a", " ", "c", "u", "p", " ", "o", "f">>
}

\* what separates its start from its end
Gaps == {BlanksOf(n) : n \in {0, 1, MaxGap - 4, MaxGap}} \cup {<<" ", "a", "n", "d", " ">>}

\* how it ends
Trails == {
    <<>>,
    <<"3", " ", "o", "z", " ">>,
    <<"1", ".", "5", " ", "c", "u", "p", "s", " ", "o", "f", " ">>,
    <<"2", " ">>,
    <<"0", ".", "2", "5">>,
    <<"h", "a", "l", "f", " ", "a", " ", "c", "u", "p", " ", "o", "f", " ">>,
    <<"t", "w", "o", " ", "s", "l", "i", "c", "e", "s", " ", "o", "f", " ">>,
    <<"h", "a", "l", "f", " ", "a", "n", " ">>,
    <<"s", "o", "m", "e", " ">>,
    <<"2", "0", "0", " ", "g", "r", "a", "m", "s">>,
    <<"2", " ", "g", "l", "a", "s", "s", "e", "s", " ", "o", "f", " ">>,
    <<"2", " ", "l", "a", "r", "g", "e", " ">>,
    <<"6", "o", "z">>,
    <<"2", "t", "b", "s", "p", " ">>
}

BeforeTexts == {l \o g \o t : l \in Leads, g \in Gaps, t \in Trails}

FoodTexts == {
    <<"r", "i", "c", "e">>,
    <<"2", "0", "0", "g", " ", "c", "h", "i", "c", "k", "e", "n">>,
    <<"5", " ", "g", "r", "a", "m", "s", " ", "o", "f", " ", "r", "i", "c", "e">>,
    <<"2", "g", "r", "a", "m", "m", "e", "s">>
}

\* _extract_quantity_and_unit(before_text, food_text) has just been called; nothing
\* else is in use
InitExtract ==
    /\ before_text \in BeforeTexts
    /\ food_text \in FoodTexts
    /\ extract_pc = "called"
    /\ extracted = NoMatch
    /\ text = <<>>
    /\ parse_pc = "idle"
    /\ food_items = <<>>
    /\ found_positions = <<>>
    /\ templates = <<>>
    /\ profile = DefaultProfile
    /\ month = 1
    /\ pc = "idle"
    /\ caller = ""
    /\ meal_type = ""
    /\ count = 0
    /\ filtered = <<>>
    /\ relaxed = {}
    /\ relax_i = 1
    /\ remaining = NoRemaining
    /\ history = NoHistory
    /\ scored = <<>>
    /\ results = <<>>
    /\ LookupIdle
    /\ LaterIdle

\* the body of _extract_quantity_and_unit, up to its return
ExtractReturn ==
    /\ extract_pc = "called"
    /\ extracted' = extract_quantity_and_unit(before_text, food_text)
    /\ extract_pc' = "returned"
    /\ UNCHANGED <<planner_vars, parser_vars, lookup_vars, before_text, food_text, later_vars>>

NextExtract == ExtractReturn

SpecExtract == InitExtract /\ [][NextExtract]_vars

(***************************************************************************)
(* search_foods and calculate_meal_macros as a state machine               *)
(***************************************************************************)
\* the meal planner, the parser and _extract_quantity_and_unit are not in use
OthersUnused ==
    /\ text = <<>>
    /\ parse_pc = "idle"
    /\ food_items = <<>>
    /\ found_positions = <<>>
    /\ ExtractIdle
    /\ templates = <<>>
    /\ profile = DefaultProfile
    /\ month = 1
    /\ pc = "idle"
    /\ caller = ""
    /\ meal_type = ""
    /\ count = 0
    /\ filtered = <<>>
    /\ relaxed = {}
    /\ relax_i = 1
    /\ remaining = NoRemaining
    /\ history = NoHistory
    /\ scored = <<>>
    /\ results = <<>>

\* the stores and the configuration are in place and nothing has been called
InitLookup ==
    /\ local_db \in DOMAIN LocalDbs
    /\ opennutrition_db \in DOMAIN OpenNutritionDbs
    /\ usda_service \in DOMAIN UsdaServices
    /\ food_sources \in FoodSourceLists
    /\ search_pc = "idle"
    /\ query = <<>>
    /\ limit = 0
    /\ source_i = 1
    /\ all_results = <<>>
    /\ search_results = <<>>
    /\ macros_pc = "idle"
    /\ mentions = <<>>
    /\ item_i = 1
    /\ totals = ZeroTotals
    /\ multiplier = 0
    /\ raised = ""
    /\ OthersUnused
    /\ LaterIdle

outside_lookup == <<planner_vars, parser_vars, extract_vars, later_vars>>

stores == <<local_db, opennutrition_db, usda_service, food_sources>>

macros_locals == <<mentions, item_i, totals, multiplier>>

\* search_foods(query, limit) is called from outside
CallSearchFoods(q, n) ==
    /\ search_pc = "idle"
    /\ macros_pc = "idle"
    /\ search_pc' = "sources"
    /\ query' = q
    /\ limit' = n
    /\ source_i' = 1
    /\ all_results' = <<>>
    /\ search_results' = <<>>
    /\ UNCHANGED <<stores, macros_pc, macros_locals, raised, outside_lookup>>

\* all_results.extend(search_fn(query, limit=20)); an exception of the adapter leaves
\* search_foods, and calculate_meal_macros when it is the caller
ExtendWith(out) ==
    /\ IF out.raised = ""
       THEN /\ all_results' = all_results \o out.value
            /\ source_i' = source_i + 1
            /\ UNCHANGED <<search_pc, macros_pc, raised>>
       ELSE /\ raised' = out.raised
            /\ search_pc' = "raised"
            /\ macros_pc' = IF macros_pc = "searching" THEN "raised" ELSE macros_pc
            /\ UNCHANGED <<all_results, source_i>>
    /\ UNCHANGED <<stores, query, limit, search_results, macros_locals, outside_lookup>>

AtSource(name) ==
    /\ search_pc = "sources"
    /\ source_i <= Len(food_sources)
    /\ food_sources[source_i] = name

\* every query search_foods is given, from outside or by calculate_meal_macros
AllQueries == Queries \cup {m.name : m \in Mentions} \cup MealNames

\* what each adapter returns or raises, by store and query: an adapter reads its store and
\* its arguments and nothing else
LocalDbAnswers ==
    [k \in DOMAIN LocalDbs |-> [q \in AllQueries |-> search_local_db(LocalDbs[k], q, AdapterLimit)]]

OpenNutritionAnswers ==
    [k \in DOMAIN OpenNutritionDbs |->
        [q \in AllQueries |-> search_opennutrition(OpenNutritionDbs[k], q, AdapterLimit)]]

UsdaApiAnswers ==
    [k \in DOMAIN UsdaServices |-> [q \in AllQueries |-> search_usda_api(UsdaServices[k], q, AdapterLimit)]]

SearchLocalDb ==
    /\ AtSource("local_db")
    /\ ExtendWith(LocalDbAnswers[local_db][query])

SearchOpenNutrition ==
    /\ AtSource("opennutrition")
    /\ ExtendWith(OpenNutritionAnswers[opennutrition_db][query])

SearchUsdaApi ==
    /\ AtSource("usda_api")
    /\ ExtendWith(UsdaApiAnswers[usda_service][query])

\* a name _SOURCE_FUNCTION_NAMES does not hold
SkipUnknownSource ==
    /\ search_pc = "sources"
    /\ source_i <= Len(food_sources)
    /\ food_sources[source_i] \notin SOURCE_FUNCTION_NAMES
    /\ source_i' = source_i + 1
    /\ UNCHANGED <<stores, search_pc, query, limit, all_results, search_results, macros_pc,
                   macros_locals, raised, outside_lookup>>

\* all_results.sort(key=...); return all_results[:limit]
SortAndReturn ==
    /\ search_pc = "sources"
    /\ source_i > Len(food_sources)
    /\ IF \E k \in 1..Len(all_results) : all_results[k].description.t # "str"
       THEN /\ raised' = "AttributeError"
            /\ search_pc' = "raised"
            /\ macros_pc' = IF macros_pc = "searching" THEN "raised" ELSE macros_pc
            /\ UNCHANGED <<all_results, search_results>>
       ELSE /\ all_results' = SortByRelevance(all_results, LowerText(query))
            /\ search_results' = Prefix(all_results', limit)
            /\ search_pc' = "returned"
            /\ UNCHANGED <<macros_pc, raised>>
    /\ UNCHANGED <<stores, query, limit, source_i, macros_locals, outside_lookup>>

\* calculate_meal_macros(food_items) is called
CallCalculateMealMacros(items) ==
    /\ search_pc = "idle"
    /\ macros_pc = "idle"
    /\ macros_pc' = "loop"
    /\ mentions' = items
    /\ item_i' = 1
    /\ totals' = ZeroTotals
    /\ UNCHANGED <<stores, search_pc, query, limit, source_i, all_results, search_results,
                   multiplier, raised, outside_lookup>>

\* results = search_foods(food_name, limit=1)
SearchMention ==
    /\ macros_pc = "loop"
    /\ item_i <= Len(mentions)
    /\ macros_pc' = "searching"
    /\ search_pc' = "sources"
    /\ query' = mentions[item_i].name
    /\ limit' = 1
    /\ source_i' = 1
    /\ all_results' = <<>>
    /\ search_results' = <<>>
    /\ UNCHANGED <<stores, macros_locals, raised, outside_lookup>>

\* if results: the first record scales into the totals
AddResolved ==
    /\ macros_pc = "searching"
    /\ search_pc = "returned"
    /\ search_results # <<>>
    /\ totals' = AddToTotals(totals, mentions[item_i], search_results[1])
    /\ multiplier' = Multiplier(mentions[item_i].quantity, MentionUnit(mentions[item_i]),
                                search_results[1].serving_g)
    /\ item_i' = item_i + 1
    /\ macros_pc' = "loop"
    /\ search_pc' = "idle"
    /\ UNCHANGED <<stores, query, limit, source_i, all_results, search_results, mentions,
                   raised, outside_lookup>>

\* as AddUnrecognized, with the mention also counted as an item
AddUnrecognized_Counted ==
    /\ macros_pc = "searching"
    /\ search_pc = "returned"
    /\ search_results = <<>>
    /\ totals' = [totals EXCEPT !.unrecognized = Append(@, mentions[item_i].name),
                                !.items = Append(@, [name |-> CharsValue(mentions[item_i].name),
                                                     quantity |-> mentions[item_i].quantity,
                                                     unit |-> MentionUnit(mentions[item_i]),
                                                     source |-> ""])]
    /\ item_i' = item_i + 1
    /\ macros_pc' = "loop"
    /\ search_pc' = "idle"
    /\ UNCHANGED <<stores, query, limit, source_i, all_results, search_results, mentions,
                   multiplier, raised, outside_lookup>>

\* else: totals['unrecognized'].append(food_name)
AddUnrecognized ==
    /\ macros_pc = "searching"
    /\ search_pc = "returned"
    /\ search_results = <<>>
    /\ totals' = [totals EXCEPT !.unrecognized = Append(@, mentions[item_i].name)]
    /\ item_i' = item_i + 1
    /\ macros_pc' = "loop"
    /\ search_pc' = "idle"
    /\ UNCHANGED <<stores, query, limit, source_i, all_results, search_results, mentions,
                   multiplier, raised, outside_lookup>>

\* return totals
ReturnTotals ==
    /\ macros_pc = "loop"
    /\ item_i > Len(mentions)
    /\ macros_pc' = "returned"
    /\ UNCHANGED <<stores, search_pc, query, limit, source_i, all_results, search_results,
                   macros_locals, raised, outside_lookup>>

NextLookup ==
    \/ \E q \in Queries, n \in Limits : CallSearchFoods(q, n)
    \/ SearchLocalDb
    \/ SearchOpenNutrition
    \/ SearchUsdaApi
    \/ SkipUnknownSource
    \/ SortAndReturn
    \/ \E items \in MentionLists : CallCalculateMealMacros(items)
    \/ SearchMention
    \/ AddResolved
    \/ AddUnrecognized
    \/ ReturnTotals

SpecLookup == InitLookup /\ [][NextLookup]_vars

(***************************************************************************)
(* analyze_meal: parse_food_items, then calculate_meal_macros              *)
(***************************************************************************)
\* the local database that is the catalog of chicken breast and rice: the last one
CatalogDb == Len(LocalDbs)

\* analyze_meal(text) has just called parse_food_items; the stores and the
\* configuration are in place
InitMeal ==
    /\ text \in MealTexts
    /\ parse_pc = "phrases"
    /\ food_items = <<>>
    /\ found_positions = <<>>
    /\ local_db \in {1, CatalogDb}
    /\ opennutrition_db \in {1, 3}
    /\ usda_service \in {1, 3, 5}
    /\ food_sources \in FoodSourceLists
    /\ search_pc = "idle"
    /\ query = <<>>
    /\ limit = 0
    /\ source_i = 1
    /\ all_results = <<>>
    /\ search_results = <<>>
    /\ macros_pc = "idle"
    /\ mentions = <<>>
    /\ item_i = 1
    /\ totals = ZeroTotals
    /\ multiplier = 0
    /\ raised = ""
    /\ ExtractIdle
    /\ templates = <<>>
    /\ profile = DefaultProfile
    /\ month = 1
    /\ pc = "idle"
    /\ caller = ""
    /\ meal_type = ""
    /\ count = 0
    /\ filtered = <<>>
    /\ relaxed = {}
    /\ relax_i = 1
    /\ remaining = NoRemaining
    /\ history = NoHistory
    /\ scored = <<>>
    /\ results = <<>>
    /\ LaterIdle

\* totals = calculate_meal_macros(food_items): the triples parse_food_items returned
AggregateParsed ==
    /\ parse_pc = "returned"
    /\ macros_pc = "idle"
    /\ macros_pc' = "loop"
    /\ mentions' = [k \in 1..Len(food_items) |->
                       [name |-> food_items[k].name, quantity |-> food_items[k].quantity,
                        unit |-> food_items[k].unit, arity |-> 3]]
    /\ item_i' = 1
    /\ totals' = ZeroTotals
    /\ UNCHANGED <<stores, search_pc, query, limit, source_i, all_results, search_results,
                   multiplier, raised, outside_lookup>>

NextMeal ==
    \/ ScanPhrases
    \/ ScanKeywords
    \/ AggregateParsed
    \/ SearchMention
    \/ SearchLocalDb
    \/ SearchOpenNutrition
    \/ SearchUsdaApi
    \/ SkipUnknownSource
    \/ SortAndReturn
    \/ AddResolved
    \/ AddUnrecognized
    \/ ReturnTotals

SpecMeal == InitMeal /\ [][NextMeal]_vars

(***************************************************************************)
(* meal_history.py: get_history, _load_cache and _save_cache.  A file is   *)
(* an inode a name of the directory points to; its content is a sequence   *)
(* of chunks, one for each write json.dump makes.  A process that has a    *)
(* file open holds the inode, whatever the names point to by then.         *)
(***************************************************************************)
\* number of writes json.dump makes for one document
MaxChunks == 2

\* the last day of the model
MaxDay == 2

\* largest number of meals logged
MaxLogged == 1

\* the days get_history is called with
DaysArgs == {3, 7}

\* what a write leaves where nothing was written
Hole == [part |-> 0, of |-> NoBuilt]

\* json.dump(history, f, indent=2): the chunks written
Dumped(h) == [k \in 1..MaxChunks |-> [part |-> k, of |-> h]]

\* the content is one whole document
Complete(content) ==
    /\ Len(content) = MaxChunks
    /\ content = Dumped(content[1].of)

\* json.load(f): the document, or JSONDecodeError
LoadedJson(content) ==
    IF Complete(content) THEN Returns(content[1].of) ELSE Raises("JSONDecodeError")

\* a write of one chunk by a process that has written `at` chunks to the file
WriteAt(content, at, chunk) ==
    IF at < Len(content) THEN [content EXCEPT ![at + 1] = chunk]
    ELSE content \o [k \in 1..(at - Len(content)) |-> Hole] \o <<chunk>>

\* the inodes in use under a directory and open files
InUse(nm, fdv) == {nm.cache, nm.tmp} \cup {fdv[p] : p \in Procs}

\* an inode nobody names or holds any more is gone
Tidy(ino, nm, fdv) == [i \in DOMAIN ino |-> IF i \in InUse(nm, fdv) THEN ino[i] ELSE <<>>]

\* the cache file the first call finds: none, one built the day before, one built today
FirstCaches == {
    <<>>,
    Dumped([logged |-> 0, days_analyzed |-> 3, built_date |-> 0]),
    Dumped([logged |-> 0, days_analyzed |-> 3, built_date |-> 1])
}

\* nothing has been called; nothing but get_history is in use
InitHistory ==
    /\ today = 1
    /\ diet_logged = 0
    /\ \E content \in FirstCaches :
           /\ names = [cache |-> IF content = <<>> THEN 0 ELSE 1, tmp |-> 0]
           /\ inodes = [i \in 1..(MaxProcs + 2) |-> IF i = 1 THEN content ELSE <<>>]
    /\ hist_pc = [p \in Procs |-> "idle"]
    /\ force_refresh = [p \in Procs |-> FALSE]
    /\ days = [p \in Procs |-> 0]
    /\ fd = [p \in Procs |-> 0]
    /\ written = [p \in Procs |-> 0]
    /\ built = [p \in Procs |-> NoBuilt]
    /\ returned = [p \in Procs |-> NoBuilt]
    /\ OthersUnused
    /\ LookupIdle
    /\ RestIdle

outside_cache == <<planner_vars, parser_vars, extract_vars, lookup_vars, rest_vars>>

\* get_history(force_refresh=force, days=d) is called by process p
CallGetHistory(p, force, d) ==
    /\ hist_pc[p] \in {"idle", "returned"}
    /\ hist_pc' = [hist_pc EXCEPT ![p] = IF force THEN "build" ELSE "exists"]
    /\ force_refresh' = [force_refresh EXCEPT ![p] = force]
    /\ days' = [days EXCEPT ![p] = d]
    /\ built' = [built EXCEPT ![p] = NoBuilt]
    /\ returned' = [returned EXCEPT ![p] = NoBuilt]
    /\ UNCHANGED <<today, diet_logged, names, inodes, fd, written, outside_cache>>

\* _load_cache: if not os.path.exists(_CACHE_FILE): return None
LoadExists(p) ==
    /\ hist_pc[p] = "exists"
    /\ hist_pc' = [hist_pc EXCEPT ![p] = IF names.cache = 0 THEN "build" ELSE "open"]
    /\ UNCHANGED <<today, diet_logged, names, inodes, force_refresh, days, fd, written, built,
                   returned, outside_cache>>

\* _load_cache: with open(_CACHE_FILE) as f
LoadOpen(p) ==
    /\ hist_pc[p] = "open"
    /\ fd' = [fd EXCEPT ![p] = names.cache]
    /\ hist_pc' = [hist_pc EXCEPT ![p] = "read"]
    /\ UNCHANGED <<today, diet_logged, names, inodes, force_refresh, days, written, built,
                   returned, outside_cache>>

\* a _load_cache that takes a document of any date
FreshCache_AnyDate(content, date) == LoadedJson(content)

\* _load_cache's answer for what was read: the document built today, or None
\* (Raises and PassOn stand for None)
FreshCache(content, date) ==
    LET Fresh(cache) ==
            IF cache.raised # "" THEN PassOn
            ELSE IF cache.value.built_date = date THEN cache ELSE PassOn
    IN  OfValue(Fresh, LoadedJson(content))

\* _load_cache: cache = json.load(f) and the comparison of built_date; then
\* get_history: if cached and cached.get('days_analyzed') == days: return cached
LoadRead(p) ==
    /\ hist_pc[p] = "read"
    /\ LET cached == FreshCache(inodes[fd[p]], today)
       IN  IF cached.raised = "" /\ cached.value.days_analyzed = days[p]
           THEN /\ returned' = [returned EXCEPT ![p] = cached.value]
                /\ hist_pc' = [hist_pc EXCEPT ![p] = "returned"]
           ELSE /\ hist_pc' = [hist_pc EXCEPT ![p] = "build"]
                /\ UNCHANGED returned
    /\ fd' = [fd EXCEPT ![p] = 0]
    /\ inodes' = Tidy(inodes, names, fd')
    /\ UNCHANGED <<today, diet_logged, names, force_refresh, days, written, built, outside_cache>>

\* history = build_history(days)
BuildHistory(p) ==
    /\ hist_pc[p] = "build"
    /\ built' = [built EXCEPT ![p] = [logged |-> diet_logged, days_analyzed |-> days[p],
                                      built_date |-> today]]
    /\ hist_pc' = [hist_pc EXCEPT ![p] = "save"]
    /\ UNCHANGED <<today, diet_logged, names, inodes, force_refresh, days, fd, written,
                   returned, outside_cache>>

\* _save_cache: with open(tmp, 'w') as f: the file is made, or cut to nothing
SaveOpen(p) ==
    /\ hist_pc[p] = "save"
    /\ IF names.tmp = 0
       THEN \E i \in DOMAIN inodes :
               /\ i \notin InUse(names, fd)
               /\ \A j \in 1..(i - 1) : j \in InUse(names, fd)
               /\ names' = [names EXCEPT !.tmp = i]
               /\ inodes' = [inodes EXCEPT ![i] = <<>>]
               /\ fd' = [fd EXCEPT ![p] = i]
       ELSE /\ inodes' = [inodes EXCEPT ![names.tmp] = <<>>]
            /\ fd' = [fd EXCEPT ![p] = names.tmp]
            /\ UNCHANGED names
    /\ written' = [written EXCEPT ![p] = 0]
    /\ hist_pc' = [hist_pc EXCEPT ![p] = "dump"]
    /\ UNCHANGED <<today, diet_logged, force_refresh, days, built, returned, outside_cache>>

\* json.dump(history, f, indent=2): one write
SaveWrite(p) ==
    /\ hist_pc[p] = "dump"
    /\ written[p] < MaxChunks
    /\ inodes' = [inodes EXCEPT ![fd[p]] = WriteAt(@, written[p], Dumped(built[p])[written[p] + 1])]
    /\ written' = [written EXCEPT ![p] = @ + 1]
    /\ UNCHANGED <<today, diet_logged, names, hist_pc, force_refresh, days, fd, built, returned,
                   outside_cache>>

\* the end of the with block: the file is closed
SaveClose(p) ==
    /\ hist_pc[p] = "dump"
    /\ written[p] = MaxChunks
    /\ fd' = [fd EXCEPT ![p] = 0]
    /\ inodes' = Tidy(inodes, names, fd')
    /\ hist_pc' = [hist_pc EXCEPT ![p] = "replace"]
    /\ UNCHANGED <<today, diet_logged, names, force_refresh, days, written, built, returned,
                   outside_cache>>

\* os.replace(tmp, _CACHE_FILE), FileNotFoundError passed over; get_history returns history
SaveReplace(p) ==
    /\ hist_pc[p] = "replace"
    /\ names' = IF names.tmp = 0 THEN names ELSE [cache |-> names.tmp, tmp |-> 0]
    /\ inodes' = Tidy(inodes, names', fd)
    /\ returned' = [returned EXCEPT ![p] = built[p]]
    /\ hist_pc' = [hist_pc EXCEPT ![p] = "returned"]
    /\ UNCHANGED <<today, diet_logged, force_refresh, days, fd, written, built, outside_cache>>

\* midnight, between calls
Tick ==
    /\ today < MaxDay
    /\ \A p \in Procs : hist_pc[p] \in {"idle", "returned"}
    /\ today' = today + 1
    /\ UNCHANGED <<diet_logged, names, inodes, hist_pc, force_refresh, days, fd, written, built,
                   returned, outside_cache>>

\* a meal is written to the diet log
LogMeal ==
    /\ diet_logged < MaxLogged
    /\ diet_logged' = diet_logged + 1
    /\ UNCHANGED <<today, names, inodes, hist_pc, force_refresh, days, fd, written, built,
                   returned, outside_cache>>

\* the steps of the processes of P
HistoryStep(P) ==
    \/ \E p \in P, force \in BOOLEAN, d \in DaysArgs : CallGetHistory(p, force, d)
    \/ \E p \in P : LoadExists(p)
    \/ \E p \in P : LoadOpen(p)
    \/ \E p \in P : LoadRead(p)
    \/ \E p \in P : BuildHistory(p)
    \/ \E p \in P : SaveOpen(p)
    \/ \E p \in P : SaveWrite(p)
    \/ \E p \in P : SaveClose(p)
    \/ \E p \in P : SaveReplace(p)
    \/ Tick
    \/ LogMeal

\* several processes call get_history
NextHistory == HistoryStep(Procs)

SpecHistory == InitHistory /\ [][NextHistory]_vars

\* one process calls get_history, one call after the other
NextHistoryAlone == HistoryStep({1})

SpecHistoryAlone == InitHistory /\ [][NextHistoryAlone]_vars

(***************************************************************************)
(* calculate_macros.py: log_meal_to_file and update_daily_totals            *)
(***************************************************************************)
\* largest number of meals logged for the date
MaxMeals == 2

\* largest number of update_daily_totals calls
MaxTotalsCalls == 3

\* a line of the diet log is a sequence of pieces: written text, or a number's digits
Txt(t) == [s |-> t, n |-> 0]

Num(k) == [s |-> "#", n |-> k]

\* the empty line
Blank == <<>>

\* f'# Diet Log - {date}'
HeaderLine == <<Txt("# Diet Log - "), Txt("date")>>

\* f"### {result['meal_type']} (~{time_str})"
MealHead == <<Txt("### "), Txt("Lunch"), Txt(" (~"), Txt("12:30 PM"), Txt(")")>>

\* f"- {item['name']} (x{qty})"
ItemLine == <<Txt("- "), Txt("rice"), Txt(" (x"), Txt("1.0"), Txt(")")>>

\* the lines log_meal_to_file writes for the meal's macros
MealLines(macros) ==
    <<  <<Txt("  - "), Txt("Est. calories: ~"), Num(macros.calories)>>,
        <<Txt("  - "), Txt("Macros: ~"), Num(macros.protein), Txt("g protein, ~"),
          Num(macros.carbs), Txt("g carbs, ~"), Num(macros.fat), Txt("g fat")>>  >>
    \o (IF macros.sodium > 0
        THEN << <<Txt("  - "), Txt("Sodium: ~"), Num(macros.sodium), Txt("mg")>> >> ELSE <<>>)
    \o (IF macros.fiber > 0
        THEN << <<Txt("  - "), Txt("Fiber: ~"), Num(macros.fiber), Txt("g")>> >> ELSE <<>>)
    \o (IF macros.beverages > 0
        THEN << <<Txt("  - "), Txt("Hydration: "), Num(macros.beverages), Txt(" beverage(s)")>> >>
        ELSE <<>>)

\* '## Daily Totals'
TotalsHead == <<Txt("## Daily Totals")>>

\* totals_section without its leading newline
TotalsSection(t) ==
    <<  TotalsHead,
        <<Txt("- "), Txt("Calories: ~"), Num(t.calories), Txt(" kcal")>>,
        <<Txt("- "), Txt("Protein: ~"), Num(t.protein), Txt("g")>>,
        <<Txt("- "), Txt("Carbs: ~"), Num(t.carbs), Txt("g")>>,
        <<Txt("- "), Txt("Fat: ~"), Num(t.fat), Txt("g")>>  >>
    \o (IF t.sodium > 0
        THEN << <<Txt("- "), Txt("Sodium: ~"), Num(t.sodium), Txt("mg")>> >> ELSE <<>>)
    \o (IF t.fiber > 0
        THEN << <<Txt("- "), Txt("Fiber: ~"), Num(t.fiber), Txt("g")>> >> ELSE <<>>)
    \o (IF t.beverages > 0
        THEN << <<Txt("- "), Txt("Hydration: "), Num(t.beverages), Txt(" beverages")>> >>
        ELSE <<>>)

\* the written texts that end in '~'
EndsInTilde ==
    {"Est. calories: ~", "Macros: ~", "g protein, ~", "g carbs, ~", "Sodium: ~", "Fiber: ~",
     "Calories: ~", "Protein: ~", "Carbs: ~", "Fat: ~"}

\* the written texts that begin with 'g'
BeginsWithG == {"g", "g protein, ~", "g carbs, ~", "g fat"}

\* update_daily_totals' patterns: the texts a number's digits must directly follow, and
\* the texts that must directly follow them (open: nothing has to follow)
TotalsPatterns ==
    [calories  |-> [ends |-> {"Est. calories: ~"}, open |-> TRUE, begins |-> {}],
     protein   |-> [ends |-> EndsInTilde, open |-> FALSE, begins |-> {"g protein, ~"}],
     carbs     |-> [ends |-> EndsInTilde, open |-> FALSE, begins |-> {"g carbs, ~"}],
     fat       |-> [ends |-> EndsInTilde, open |-> FALSE, begins |-> {"g fat"}],
     sodium    |-> [ends |-> {"Sodium: ~"}, open |-> FALSE, begins |-> {"mg"}],
     fiber     |-> [ends |-> {"Fiber: ~"}, open |-> FALSE, begins |-> BeginsWithG],
     beverages |-> [ends |-> {"Hydration: "}, open |-> FALSE,
                    begins |-> {" beverage(s)", " beverages"}]]

\* the pattern matches the digits at piece i of the line
PatternAt(rx, line, i) ==
    /\ line[i].s = "#"
    /\ i > 1
    /\ line[i - 1].s \in rx.ends
    /\ rx.open \/ (i < Len(line) /\ line[i + 1].s \in rx.begins)

\* sum(int(m.group(1)) for m in re.finditer(rx, line))
RECURSIVE LineSum(_, _, _)
LineSum(rx, line, i) ==
    IF i > Len(line) THEN 0
    ELSE (IF PatternAt(rx, line, i) THEN line[i].n ELSE 0) + LineSum(rx, line, i + 1)

\* sum(int(m.group(1)) for m in re.finditer(rx, content))
RECURSIVE FindSum(_, _)
FindSum(rx, content) ==
    IF content = <<>> THEN 0 ELSE LineSum(rx, content[1], 1) + FindSum(rx, Tail(content))

\* the sums update_daily_totals takes from the file's content
ContentTotals(content) == [k \in DOMAIN TotalsPatterns |-> FindSum(TotalsPatterns[k], content)]

\* the line matches '- .*\n'
IsBullet(line) == line # <<>> /\ line[1].s = "- "

\* re.sub(r'\n## Daily Totals\n(?:- .*\n)*', '', content): the newline that ends the line
\* before the heading goes with the heading and the lines that begin with '- ', so the
\* line before it runs on into the line after them
RECURSIVE RemoveTotals(_)
RemoveTotals(content) ==
    LET heads == {i \in 2..Len(content) : content[i] = TotalsHead}
        First(S) == CHOOSE i \in S : \A j \in S : i <= j
        Last(S) == CHOOSE i \in S : \A j \in S : i >= j
        Cut(i) ==
            LET ends == {j \in i..Len(content) : \A k \in (i + 1)..j : IsBullet(content[k])}
                Joined(rest) ==
                    IF rest = <<>> THEN SubSeq(content, 1, i - 1)
                    ELSE SubSeq(content, 1, i - 2) \o <<content[i - 1] \o rest[1]>> \o Tail(rest)
            IN  OfValue(Joined, RemoveTotals(SubSeq(content, Last(ends) + 1, Len(content))))
    IN  IF heads = {} THEN content ELSE Cut(First(heads))

\* content.rstrip('\n') + '\n'
RECURSIVE StripNewlines(_)
StripNewlines(content) ==
    IF content # <<>> /\ content[Len(content)] = Blank
    THEN StripNewlines(SubSeq(content, 1, Len(content) - 1))
    ELSE content

\* the macros of the results log_meal_to_file is called with; what is written is int() of them
MealArgs ==
    [calories : {450}, protein : {30}, carbs : {40}, fat : {12},
     sodium : {0, 300}, fiber : {0, 4}, beverages : {0, 1}]

\* no diet log exists; nothing but the diet log is in use
InitDiet ==
    /\ DietIdle
    /\ PromptIdle
    /\ OverloadIdle
    /\ ScoreIdle
    /\ OthersUnused
    /\ LookupIdle
    /\ CacheIdle

outside_diet == <<planner_vars, parser_vars, extract_vars, lookup_vars, cache_vars, prompt_vars,
                  overload_vars, score_vars>>

\* log_meal_to_file(result, date)
LogMealToFile(macros) ==
    /\ Len(meals_logged) < MaxMeals
    /\ diet_file' = (IF diet_file = <<>> THEN <<HeaderLine, Blank>> ELSE diet_file)
                    \o <<Blank, MealHead, ItemLine>> \o MealLines(macros)
    /\ meals_logged' = Append(meals_logged, macros)
    /\ last_call' = "log"
    /\ UNCHANGED <<totals_calls, outside_diet>>

\* update_daily_totals(date)
UpdateDailyTotals ==
    /\ totals_calls < MaxTotalsCalls
    /\ totals_calls' = totals_calls + 1
    /\ last_call' = "update"
    /\ diet_file' = IF diet_file = <<>> THEN diet_file
                    ELSE StripNewlines(RemoveTotals(diet_file)) \o <<Blank>>
                         \o TotalsSection(ContentTotals(diet_file))
    /\ UNCHANGED <<meals_logged, outside_diet>>

NextDiet ==
    \/ \E macros \in MealArgs : LogMealToFile(macros)
    \/ UpdateDailyTotals

SpecDiet == InitDiet /\ [][NextDiet]_vars

(***************************************************************************)
(* dietary_profile.py: the gradual learning of preferences                 *)
(***************************************************************************)
\* largest number of increment_interactions calls
MaxInteractions == 5

\* largest number of prompts get_next_prompt returns
MaxPrompts == 3

\* the trigger_count of the preferences asked only on a meal plan request
OnMealPlanOnly == -1

\* _PROMPT_SCHEDULE
PROMPT_SCHEDULE ==
    [allergies            |-> [trigger_count |-> 1, priority |-> "safety"],
     health_conditions    |-> [trigger_count |-> 1, priority |-> "safety"],
     dietary_restrictions |-> [trigger_count |-> 5, priority |-> "coaching"],
     dislikes             |-> [trigger_count |-> 10, priority |-> "comfort"],
     cuisine_preferences  |-> [trigger_count |-> 15, priority |-> "planning"],
     cooking_skill        |-> [trigger_count |-> OnMealPlanOnly, priority |-> "planning"],
     budget               |-> [trigger_count |-> OnMealPlanOnly, priority |-> "planning"],
     meal_timing          |-> [trigger_count |-> 20, priority |-> "optimization"],
     meal_variety         |-> [trigger_count |-> OnMealPlanOnly, priority |-> "planning"]]

\* _MIN_INTERACTIONS_BETWEEN_PROMPTS
MinInteractionsBetweenPrompts == 3

\* get_next_prompt's priority_order
priority_order ==
    <<"allergies", "health_conditions", "dietary_restrictions", "dislikes",
      "cuisine_preferences", "cooking_skill", "budget", "meal_timing", "meal_variety">>

\* should_prompt_preference(key)
should_prompt_preference(key) ==
    LET schedule == PROMPT_SCHEDULE[key]
        meals == learning_state.total_meals_logged
    IN  IF key \in dietary_profile THEN FALSE
        ELSE IF key \in learning_state.asked THEN FALSE
        ELSE IF schedule.trigger_count = OnMealPlanOnly THEN learning_state.meal_plan_requested
        ELSE IF meals < schedule.trigger_count THEN FALSE
        ELSE IF /\ schedule.priority # "safety"
                /\ meals - learning_state.last_prompt_at < MinInteractionsBetweenPrompts
             THEN FALSE
        ELSE TRUE

\* nothing but the gradual learning is in use
InitPrompt ==
    /\ PromptIdle
    /\ DietIdle
    /\ OverloadIdle
    /\ ScoreIdle
    /\ OthersUnused
    /\ LookupIdle
    /\ CacheIdle

outside_prompt == <<planner_vars, parser_vars, extract_vars, lookup_vars, cache_vars, diet_vars,
                    overload_vars, score_vars>>

\* increment_interactions()
IncrementInteractions ==
    /\ learning_state.total_meals_logged < MaxInteractions
    /\ learning_state' = [learning_state EXCEPT !.total_meals_logged = @ + 1]
    /\ UNCHANGED <<dietary_profile, prompts, next_prompt, outside_prompt>>

\* mark_meal_plan_requested()
MarkMealPlanRequested ==
    /\ learning_state' = [learning_state EXCEPT !.meal_plan_requested = TRUE]
    /\ UNCHANGED <<dietary_profile, prompts, next_prompt, outside_prompt>>

\* update_preference(key, value): the value is one that is set, or 'none' or empty
UpdatePreference(key, is_set) ==
    /\ dietary_profile' = IF is_set THEN dietary_profile \cup {key} ELSE dietary_profile \ {key}
    /\ UNCHANGED <<learning_state, prompts, next_prompt, outside_prompt>>

\* get_next_prompt() returns the two safety questions together; the state is not saved
PromptSafetyTogether ==
    /\ Len(prompts) < MaxPrompts
    /\ should_prompt_preference("allergies")
    /\ should_prompt_preference("health_conditions")
    /\ prompts' = Append(prompts, [key |-> "allergies_and_health", priority |-> "safety",
                                   covers |-> {"allergies", "health_conditions"},
                                   at |-> learning_state.total_meals_logged,
                                   last_prompt_at |-> learning_state.last_prompt_at])
    /\ next_prompt' = "allergies_and_health"
    /\ UNCHANGED <<dietary_profile, learning_state, outside_prompt>>

\* get_next_prompt() returns the question of the first key of priority_order to prompt
\* for, and saves that it was asked
PromptFirstKey ==
    /\ Len(prompts) < MaxPrompts
    /\ ~ (should_prompt_preference("allergies") /\ should_prompt_preference("health_conditions"))
    /\ \E i \in 1..Len(priority_order) :
          /\ should_prompt_preference(priority_order[i])
          /\ \A j \in 1..(i - 1) : ~ should_prompt_preference(priority_order[j])
          /\ learning_state' = [learning_state EXCEPT
                                   !.asked = @ \cup {priority_order[i]},
                                   !.last_prompt_at = learning_state.total_meals_logged]
          /\ prompts' = Append(prompts, [key |-> priority_order[i],
                                         priority |-> PROMPT_SCHEDULE[priority_order[i]].priority,
                                         covers |-> {priority_order[i]},
                                         at |-> learning_state.total_meals_logged,
                                         last_prompt_at |-> learning_state.last_prompt_at])
          /\ next_prompt' = priority_order[i]
    /\ UNCHANGED <<dietary_profile, outside_prompt>>

\* get_next_prompt() returns None
PromptNone ==
    /\ \A i \in 1..Len(priority_order) : ~ should_prompt_preference(priority_order[i])
    /\ next_prompt' = "None"
    /\ UNCHANGED <<dietary_profile, learning_state, prompts, outside_prompt>>

\* the keys update_preference is called with
UpdatedKeys == {"allergies", "health_conditions", "dietary_restrictions", "cooking_skill", "meal_variety"}

NextPrompt ==
    \/ IncrementInteractions
    \/ MarkMealPlanRequested
    \/ \E key \in UpdatedKeys, is_set \in BOOLEAN : UpdatePreference(key, is_set)
    \/ PromptSafetyTogether
    \/ PromptFirstKey
    \/ PromptNone

SpecPrompt == InitPrompt /\ [][NextPrompt]_vars

(***************************************************************************)
(* progressive_overload.py: record_exercise                                *)
(***************************************************************************)
\* largest number of record_exercise calls
MaxSessions == 3

\* the pounds of a kilogram, in thousandths: 2.205
LbsPerKg == 2205

\* weight_lbs, in thousandths of a pound, of a weight given as a whole number
WeightLbs(weight, unit) ==
    IF unit = "kg" /\ weight # 0 THEN weight * LbsPerKg
    ELSE IF weight # 0 THEN weight * One ELSE 0

\* volume = int(sets * reps * weight_lbs) if weight_lbs else 0
Volume(sets, reps, weight_lbs) ==
    IF weight_lbs # 0 THEN (sets * reps * weight_lbs) \div One ELSE 0

\* total_reps = int(sets * reps) if reps else 0
TotalReps(sets, reps) == IF reps # 0 THEN sets * reps ELSE 0

\* a weight PR that an equal weight earns too
BeatsWeight_OrEqual(weight_lbs, pr_weight) == weight_lbs # 0 /\ weight_lbs >= pr_weight

\* weight_lbs and weight_lbs > ex.get('pr_weight', 0)
BeatsWeight(weight_lbs, pr_weight) == weight_lbs # 0 /\ weight_lbs > pr_weight

\* what record_exercise makes of the exercise's stored record
Recorded(ex, entry) ==
    LET weight_lbs == WeightLbs(entry.weight, entry.unit)
        volume == Volume(entry.sets, entry.reps, weight_lbs)
        total_reps == TotalReps(entry.sets, entry.reps)
        stored == [date |-> entry.date, sets |-> entry.sets, reps |-> entry.reps,
                   weight |-> entry.weight, volume |-> volume, total_reps |-> total_reps,
                   unit |-> entry.unit]
    IN  IF ~ ex.tracked
        THEN [tracked |-> TRUE, pr_weight |-> weight_lbs, pr_volume |-> volume,
              pr_reps |-> total_reps, history |-> <<stored>>]
        ELSE [tracked |-> TRUE,
              pr_weight |-> IF BeatsWeight(weight_lbs, ex.pr_weight) THEN weight_lbs ELSE ex.pr_weight,
              pr_volume |-> IF volume > ex.pr_volume THEN volume ELSE ex.pr_volume,
              pr_reps |-> IF total_reps > ex.pr_reps THEN total_reps ELSE ex.pr_reps,
              history |-> Append(ex.history, stored)]

\* what record_exercise returns
PrResult(ex, entry) ==
    LET weight_lbs == WeightLbs(entry.weight, entry.unit)
    IN  IF ~ ex.tracked THEN NoPr
        ELSE [is_weight_pr |-> BeatsWeight(weight_lbs, ex.pr_weight),
              is_volume_pr |-> Volume(entry.sets, entry.reps, weight_lbs) > ex.pr_volume,
              is_reps_pr |-> TotalReps(entry.sets, entry.reps) > ex.pr_reps,
              previous_best_weight |-> <<ex.pr_weight>>,
              previous_best_volume |-> <<ex.pr_volume>>,
              previous_best_reps |-> <<ex.pr_reps>>]

\* the sessions record_exercise is called with
SessionArgs ==
    [date : {1}, sets : {3}, reps : {0, 10}, weight : {0, 100, 225}, unit : {"lbs", "kg"}]

\* the number of sessions recorded so far
SessionCount(exs) == Len(exs["Bench Press"].history) + Len(exs["Squat"].history)

\* nothing but the PR history is in use
InitOverload ==
    /\ OverloadIdle
    /\ DietIdle
    /\ PromptIdle
    /\ ScoreIdle
    /\ OthersUnused
    /\ LookupIdle
    /\ CacheIdle

outside_overload == <<planner_vars, parser_vars, extract_vars, lookup_vars, cache_vars, diet_vars,
                      prompt_vars, score_vars>>

\* record_exercise(name, date, sets, reps, weight, unit)
RecordExercise(name, entry) ==
    /\ SessionCount(exercises) < MaxSessions
    /\ exercises' = [exercises EXCEPT ![name] = Recorded(exercises[name], entry)]
    /\ pr_result' = PrResult(exercises[name], entry)
    /\ recorded' = name
    /\ UNCHANGED outside_overload

NextOverload == \E name \in ExerciseNames, entry \in SessionArgs : RecordExercise(name, entry)

SpecOverload == InitOverload /\ [][NextOverload]_vars

(***************************************************************************)
(* meal_planner.py: score_template called by itself                        *)
(***************************************************************************)
\* what was eaten so far on the days score_template is called on
ScoreConsumed ==
    {d.consumed : d \in DayStates}
    \cup {[calories |-> 1700, protein |-> 70, carbs |-> 150, fat |-> 60, sodium |-> 2000]}

\* random.random(), in thousandths: the values tried
ScoreRandomValues == {0, 999}

\* the arguments score_template is called with
ScoreCalls ==
    [template : Range(TemplatePool),
     remaining : {get_remaining_macros(c, h) : c \in ScoreConsumed, h \in Hours},
     profile : Profiles,
     history : {d.history : d \in DayStates},
     rnd : ScoreRandomValues]

\* score_template(template, remaining, profile, history) has just been called
InitScore ==
    /\ score_call \in ScoreCalls
    /\ score_pc = "called"
    /\ score_factors = <<>>
    /\ score = 0
    /\ DietIdle
    /\ PromptIdle
    /\ OverloadIdle
    /\ OthersUnused
    /\ LookupIdle
    /\ CacheIdle

\* the body of score_template, up to its return
ScoreTemplate ==
    /\ score_pc = "called"
    /\ score_factors' = ScoreFactors(score_call.template, score_call.remaining, score_call.profile,
                                     score_call.history, score_call.rnd)
    /\ score' = score_template(score_call.template, score_call.remaining, score_call.profile,
                               score_call.history, score_call.rnd)
    /\ score_pc' = "returned"
    /\ UNCHANGED <<score_call, planner_vars, parser_vars, extract_vars, lookup_vars, cache_vars,
                   diet_vars, prompt_vars, overload_vars>>

NextScore == ScoreTemplate

SpecScore == InitScore /\ [][NextScore]_vars

(***************************************************************************)
(* Properties of filter_templates and suggest_meals                        *)
(***************************************************************************)
\* filter_templates has computed a filtered list (the loop is running or left)
FilterComputed == pc \in {"relax_loop", "filter_returned", "score", "sort", "top_n"}

\* filter_templates has returned to its caller
FilterReturned == pc \in {"filter_returned", "score", "sort", "top_n"}

\* suggest_meals has returned a list built from a non-empty catalog
SuggestReturned == pc = "suggest_returned" /\ templates # <<>>

\* the five soft categories
SoftCategories == {"budget", "cooking_skill", "seasons", "difficulty", "dislikes"}

\* a template carries one of the user's allergies, compared case-insensitively
TaggedWithAllergy(meal) ==
    \E a \in Range(profile.allergies), b \in Range(meal.allergens) : Lower(a) = Lower(b)

\* C1: in every relaxation state, no template of the filtered list carries, compared
\* case-insensitively, an allergen that is one of the user's allergies
C1_NoAllergenTemplate ==
    \A k \in 1..Len(filtered) : ~ TaggedWithAllergy(templates[filtered[k]])

\* every category is relaxed, and a template that only its allergen keeps out is in the catalog
C1_Witness ==
    /\ FilterReturned
    /\ relaxed = SoftCategories
    /\ \E i \in 1..Len(templates) :
          /\ TaggedWithAllergy(templates[i])
          /\ RestrictionOk(templates[i], Ctx)
          /\ MealTypeOk(templates[i], Ctx)
          /\ \E b \in Range(templates[i].allergens) : b \notin Range(LowerAll(profile.allergies))

\* a template lacks the dietary tag that one of the user's restrictions maps to
LacksRequiredTag(meal) ==
    \E r \in Range(profile.dietary_restrictions) :
        /\ RestrictionTagMap(Lower(r)) # ""
        /\ \A t \in Range(meal.tags.dietary) : Lower(t) # RestrictionTagMap(Lower(r))

\* C2: in every relaxation state, every template of the filtered list carries the dietary
\* tag of each of the user's restrictions that maps to a tag
C2_RestrictionTagsCarried ==
    \A k \in 1..Len(filtered) : ~ LacksRequiredTag(templates[filtered[k]])

\* every category is relaxed, the user has two restrictions, and a template that only the
\* second restriction keeps out is in the catalog
C2_Witness ==
    /\ FilterReturned
    /\ relaxed = SoftCategories
    /\ Len(profile.dietary_restrictions) = 2
    /\ \E i \in 1..Len(templates) :
          /\ LacksRequiredTag(templates[i])
          /\ AllergenOk(templates[i], Ctx)
          /\ MealTypeOk(templates[i], Ctx)

\* C3: a category is relaxed only while the filtered list has fewer than 3 templates, the
\* loop is left at the first pass that yields 3 or more, and on return the filtered list
\* has at least 3 templates or all five categories are relaxed
C3_RelaxOnlyWhileFew ==
    /\ [][/\ relaxed' # relaxed /\ relaxed' # {} => pc = "relax_loop" /\ Len(filtered) < 3
         /\ pc = "relax_loop" /\ Len(filtered) >= 3 =>
                pc' # "relax_loop" /\ relaxed' = relaxed /\ filtered' = filtered]_vars
    /\ [](FilterReturned => Len(filtered) >= 3 \/ relaxed = SoftCategories)

\* the loop stopped part-way: some but not all categories relaxed, 3 templates reached
C3_Witness ==
    /\ FilterReturned
    /\ relaxed # {}
    /\ relaxed # SoftCategories
    /\ Len(filtered) >= 3

\* the catalog positions that pass the hard filters and the soft predicates of the
\* categories outside rel
Surviving(rel) ==
    {i \in 1..Len(templates) :
        /\ PassesHardFilters(templates[i], Ctx)
        /\ \A c \in SoftCategories \ rel : SoftPredicate(c, templates[i], Ctx)}

\* C4: the relaxed set is a prefix of budget, cooking_skill, seasons, difficulty, dislikes,
\* and the filtered list holds exactly the templates that pass the hard filters and the
\* soft predicate of every category that is not relaxed
C4_RelaxedPrefix ==
    FilterComputed =>
        /\ \E n \in 0..5 :
              relaxed = {<<"budget", "cooking_skill", "seasons", "difficulty", "dislikes">>[j] :
                            j \in 1..n}
        /\ Range(filtered) = Surviving(relaxed)
        /\ \A j, k \in 1..Len(filtered) : j < k => filtered[j] < filtered[k]

\* all five categories relaxed and a template with a disliked ingredient returned
C4_Witness ==
    /\ FilterReturned
    /\ relaxed = SoftCategories
    /\ \E k \in 1..Len(filtered) : ~ DislikesOk(templates[filtered[k]], Ctx)

\* C5: each relaxation pass keeps every template of the pass before it, so the filtered
\* list never gets shorter
C5_RelaxationMonotone ==
    [][pc = "relax_loop" /\ pc' = "relax_loop" =>
          /\ Range(filtered) \subseteq Range(filtered')
          /\ Len(filtered) <= Len(filtered')]_vars

\* two categories relaxed and the filtered list longer than after the first pass
C5_Witness ==
    /\ pc = "relax_loop"
    /\ Cardinality(relaxed) >= 2
    /\ Len(filtered) > Len(FilterPass(templates, {}, Ctx))

\* a template lists the meal type of the call, compared case-insensitively
ListsMealType(meal) ==
    \E t \in Range(meal.meal_types) : Lower(t) = Lower(meal_type)

\* C6: with a meal type given, every template of the filtered list, in every relaxation
\* state, and every template of a suggest_meals result lists that meal type
C6_MealTypeListed ==
    /\ meal_type # "" => \A k \in 1..Len(filtered) : ListsMealType(templates[filtered[k]])
    /\ SuggestReturned =>
          /\ meal_type # ""
          /\ \A k \in 1..Len(results) : ListsMealType(results[k].template)

\* suggest_meals returned a template with a meal type in force, all categories relaxed,
\* while the catalog holds a template that the meal type alone keeps out
C6_Witness ==
    /\ SuggestReturned
    /\ results # <<>>
    /\ relaxed = SoftCategories
    /\ \E i \in 1..Len(templates) :
          /\ ~ ListsMealType(templates[i])
          /\ AllergenOk(templates[i], Ctx)
          /\ RestrictionOk(templates[i], Ctx)

\* the relaxed categories a caller can read off a list returned by suggest_meals
RelaxedReceived(res) == UNION {res[k].relaxed_filters : k \in 1..Len(res)}

\* C7 as stated: when everything is filtered out after full relaxation, suggest_meals
\* returns an empty list and its caller receives the full set of relaxed categories
C7_CallerReceivesRelaxed ==
    SuggestReturned /\ filtered = <<>> =>
        results = <<>> /\ RelaxedReceived(results) = SoftCategories

\* C7 (amended): when everything is filtered out, filter_templates returns the empty
\* list together with all five relaxed categories, and suggest_meals returns an empty
\* list from which no relaxed category can be read
C7_EmptyAfterFullRelaxation ==
    /\ FilterReturned /\ filtered = <<>> => relaxed = SoftCategories
    /\ SuggestReturned /\ filtered = <<>> =>
          /\ relaxed = SoftCategories
          /\ results = <<>>
          /\ RelaxedReceived(results) = {}

\* suggest_meals asked for suggestions from a catalog that the filters empty
C7_Witness ==
    /\ SuggestReturned
    /\ count > 0
    /\ filtered = <<>>
    /\ Len(templates) >= 2

\* C8: suggest_meals returns min(count, number of filtered templates) entries, the
\* best-scored filtered templates in non-increasing score order, templates of equal
\* score in catalog order, each entry with the relaxed set and the remaining budget
\* of the call
C8_TopNSorted ==
    SuggestReturned =>
        /\ Len(results) = Min(count, Len(filtered))
        /\ Len(scored) = Len(filtered)
        /\ {scored[k][1] : k \in 1..Len(scored)} = Range(filtered)
        /\ \A j, k \in 1..Len(scored) : j < k =>
              \/ scored[j][2] > scored[k][2]
              \/ scored[j][2] = scored[k][2] /\ scored[j][1] < scored[k][1]
        /\ \A k \in 1..Len(results) :
              /\ results[k].template = templates[scored[k][1]]
              /\ results[k].score = Round3(scored[k][2])
              /\ results[k].relaxed_filters = relaxed
              /\ results[k].remaining = remaining
        /\ \A k \in 1..(Len(results) - 1) : results[k].score >= results[k + 1].score

\* fewer entries returned than templates filtered, two returned templates of equal score
C8_Witness ==
    /\ SuggestReturned
    /\ Len(results) = count
    /\ count < Len(filtered)
    /\ relaxed # {}
    /\ \E k \in 1..(Len(results) - 1) : scored[k][2] = scored[k + 1][2]

\* the sum of the ten weights of a mode, in hundredths
WeightTotal(w) ==
    w.calorie_fit + w.protein_fit + w.sodium_ok + w.cuisine_bonus + w.cuisine_diverse
    + w.novelty_bonus + w.repetition_penalty + w.familiarity_bonus + w.pattern_match
    + w.random_factor

\* C9: explore, balanced and consistent each define the ten weights, and the weights of
\* each mode, and so the weights any scoring uses, sum to 1.0
C9_WeightsSumToOne ==
    /\ DOMAIN VARIETY_WEIGHTS = {"explore", "balanced", "consistent"}
    /\ \A mode \in DOMAIN VARIETY_WEIGHTS :
          /\ DOMAIN VARIETY_WEIGHTS[mode] = FactorNames
          /\ WeightTotal(VARIETY_WEIGHTS[mode]) = 100
    /\ pc \in {"sort", "top_n"} => WeightTotal(SelectWeights(profile)) = 100

\* templates were scored under the explore mode
C9_Witness ==
    /\ pc = "sort"
    /\ scored # <<>>
    /\ Lower(profile.meal_variety) = "explore"

(***************************************************************************)
(* Properties of parse_food_items                                          *)
(***************************************************************************)
\* C10: the spans of the accepted mentions are pairwise non-overlapping, each lies in
\* the text, and there is one span per mention
C10_SpansDisjoint ==
    /\ Len(found_positions) = Len(food_items)
    /\ \A k \in 1..Len(found_positions) :
          /\ 0 <= found_positions[k][1]
          /\ found_positions[k][1] < found_positions[k][2]
          /\ found_positions[k][2] <= Len(text)
    /\ \A j, k \in 1..Len(found_positions) :
          j # k => \/ found_positions[j][2] <= found_positions[k][1]
                   \/ found_positions[k][2] <= found_positions[j][1]

\* an occurrence of a catalog entry was turned down because it overlaps an accepted span
C10_Witness ==
    /\ parse_pc = "returned"
    /\ Len(found_positions) >= 2
    /\ \E e \in Range(food_phrases) \cup Range(food_keywords) :
          \E pos \in 0..Len(text) :
              /\ MatchesAt(e, LowerText(text), pos)
              /\ \A k \in 1..Len(found_positions) :
                    found_positions[k] # <<pos, pos + Len(e)>> \/ food_items[k].name # e

\* the mention of the catalog entry at the position is among those returned
Returned(entry, pos) ==
    \E k \in 1..Len(food_items) :
        food_items[k].name = entry /\ found_positions[k] = <<pos, pos + Len(entry)>>

\* the occurrences of two entries at two positions share a character
Intersect(e1, p1, e2, p2) == p1 < p2 + Len(e2) /\ p2 < p1 + Len(e1)

\* the occurrences of the entries of a catalog list in the lower-cased text, as
\* <<entry, position>> pairs
Occurrences(entries) ==
    LET txt == LowerText(text)
    IN  UNION {{<<e, p>> : p \in {q \in 0..Len(txt) : MatchesAt(e, txt, q)}} : e \in Range(entries)}

\* C11 as stated: when the parse has returned, wherever a phrase and a keyword occur in
\* the text and overlap, the keyword is not a returned mention, and the phrase is one
\* (or, read generously, a returned phrase mention covers part of it)
C11_PhraseAlwaysWins ==
    parse_pc = "returned" =>
        LET phs == Occurrences(food_phrases)
            kws == Occurrences(food_keywords)
        IN  \A ph \in phs, kw \in kws :
                Intersect(ph[1], ph[2], kw[1], kw[2])
                    => /\ ~ Returned(kw[1], kw[2])
                       /\ \E k \in 1..Len(food_items) :
                             /\ food_items[k].name \in Range(food_phrases)
                             /\ Intersect(ph[1], ph[2], food_items[k].name, found_positions[k][1])

\* C11: every phrase is processed before any keyword (when the phrase pass is over only
\* phrases have been returned, and the keyword pass adds keywords after them), so no
\* keyword occurrence that overlaps a returned phrase mention is returned
C11_ReturnedPhraseWins ==
    /\ parse_pc = "keywords" =>
          \A k \in 1..Len(food_items) : food_items[k].name \in Range(food_phrases)
    /\ parse_pc = "returned" =>
          \A j, k \in 1..Len(food_items) :
              (food_items[j].name \in Range(food_keywords) /\ food_items[k].name \in Range(food_phrases))
                  => k < j
    /\ parse_pc = "returned" =>
          LET kws == Occurrences(food_keywords)
          IN  \A k \in 1..Len(food_items) :
                  food_items[k].name \in Range(food_phrases) =>
                      \A kw \in kws :
                          Intersect(food_items[k].name, found_positions[k][1], kw[1], kw[2])
                              => ~ Returned(kw[1], kw[2])

\* a phrase was returned, a keyword occurs inside it, and another keyword was returned
C11_Witness ==
    /\ parse_pc = "returned"
    /\ \E k \in 1..Len(food_items) :
          /\ food_items[k].name \in Range(food_phrases)
          /\ \E kw \in Occurrences(food_keywords) :
                Intersect(food_items[k].name, found_positions[k][1], kw[1], kw[2])
    /\ \E j \in 1..Len(food_items) : food_items[j].name \in Range(food_keywords)

(***************************************************************************)
(* Properties of _extract_quantity_and_unit                                *)
(***************************************************************************)
\* the last n characters of a text, or the whole text when it is shorter
LastChars(t, n) == SubSeq(t, Max(1, Len(t) - n + 1), Len(t))

\* C12: the result is that of the first rule that applies, in the order number with
\* unit, number attached to the food token, word number with unit, bare trailing
\* number, trailing word number; when none applies it is quantity 1, unit servings
C12_FirstApplicableRule ==
    extract_pc = "returned" =>
        LET ctx == LastChars(before_text, NearbyLength)
            r1 == NumberWithUnit(ctx)
            r2 == AttachedNumber(food_text)
            r3 == WordNumberWithUnit(ctx)
            r4 == BareNumber(ctx)
            r5 == WordNumberBefore(ctx)
        IN  /\ r1 # NoMatch => extracted = r1
            /\ (r1 = NoMatch /\ r2 # NoMatch) => extracted = r2
            /\ (r1 = NoMatch /\ r2 = NoMatch /\ r3 # NoMatch) => extracted = r3
            /\ (r1 = NoMatch /\ r2 = NoMatch /\ r3 = NoMatch /\ r4 # NoMatch) => extracted = r4
            /\ (r1 = NoMatch /\ r2 = NoMatch /\ r3 = NoMatch /\ r4 = NoMatch /\ r5 # NoMatch)
                  => extracted = r5
            /\ (r1 = NoMatch /\ r2 = NoMatch /\ r3 = NoMatch /\ r4 = NoMatch /\ r5 = NoMatch)
                  => extracted = [quantity |-> One, unit |-> Word_servings]

\* a number is attached to the food token and a bare number ends the context; the
\* attached number is returned
C12_Witness ==
    /\ extract_pc = "returned"
    /\ AttachedNumber(food_text) # NoMatch
    /\ BareNumber(LastChars(before_text, NearbyLength)) # NoMatch
    /\ BareNumber(LastChars(before_text, NearbyLength)) # AttachedNumber(food_text)
    /\ extracted = AttachedNumber(food_text)

\* C13: the result depends on the text before the match only through its last 40
\* characters: every other before_text with the same last 40 characters gives the
\* same quantity and unit for the same food
C13_WindowOnly ==
    extract_pc = "returned" =>
        \A other \in BeforeTexts :
            LastChars(other, NearbyLength) = LastChars(before_text, NearbyLength)
                => extract_quantity_and_unit(other, food_text) = extracted

\* the text before the window holds a number with a unit that would be found if the
\* whole text were searched, another text shares the window, and the default is returned
C13_Witness ==
    /\ extract_pc = "returned"
    /\ Len(before_text) > NearbyLength
    /\ NumberWithUnit(before_text) # NoMatch
    /\ extracted = [quantity |-> One, unit |-> Word_servings]
    /\ \E other \in BeforeTexts :
          /\ other # before_text
          /\ LastChars(other, NearbyLength) = LastChars(before_text, NearbyLength)

(***************************************************************************)
(* Properties of search_foods and calculate_meal_macros                    *)
(***************************************************************************)
\* what the adapters named by a list of sources return for the query, end to end
RECURSIVE Concatenated(_)
Concatenated(sources) ==
    IF sources = <<>> THEN <<>>
    ELSE LET name == sources[Len(sources)]
             out == CASE name = "local_db" -> LocalDbAnswers[local_db][query].value
                      [] name = "opennutrition" -> OpenNutritionAnswers[opennutrition_db][query].value
                      [] name = "usda_api" -> UsdaApiAnswers[usda_service][query].value
                      [] OTHER -> <<>>
         IN  Concatenated(SubSeq(sources, 1, Len(sources) - 1)) \o out

\* how often a value occurs in a sequence
CountIn(x, xs) == Cardinality({k \in 1..Len(xs) : xs[k] = x})

\* two sequences hold the same elements, each as often
SameRecords(xs, ys) ==
    /\ Len(xs) = Len(ys)
    /\ \A k \in 1..Len(xs) : CountIn(xs[k], xs) = CountIn(xs[k], ys)

\* the index of the lowercased query in the lowercased description, or -1
QueryIndex(rec) == Find(LowerText(query), LowerText(rec.description.s))

\* record a may stand before record b: a description that holds the query stands before
\* every one that does not; then the smaller index, then the shorter description
MayPrecede(a, b) ==
    IF QueryIndex(a) >= 0 /\ QueryIndex(b) >= 0
    THEN \/ QueryIndex(a) < QueryIndex(b)
         \/ QueryIndex(a) = QueryIndex(b) /\ Len(a.description.s) <= Len(b.description.s)
    ELSE IF QueryIndex(a) >= 0 THEN TRUE
    ELSE IF QueryIndex(b) >= 0 THEN FALSE
    ELSE Len(a.description.s) <= Len(b.description.s)

\* C14: search_foods returns the concatenated adapter results sorted by query index
\* (a description without the query after every description with it), then by
\* description length, cut to the limit: at most limit records, an exact match first
C14_RankedByRelevance ==
    search_pc = "returned" =>
        /\ SameRecords(all_results, Concatenated(food_sources))
        /\ \A i, j \in 1..Len(all_results) : i < j => MayPrecede(all_results[i], all_results[j])
        /\ search_results = SubSeq(all_results, 1, Min(limit, Len(all_results)))
        /\ Len(search_results) <= limit
        /\ (\E k \in 1..Len(all_results) : LowerText(all_results[k].description.s) = LowerText(query))
              => LowerText(search_results[1].description.s) = LowerText(query)

\* C15: no adapter raises, whatever the store or the service holds or does
C15_AdaptersNeverRaise == raised = ""

\* C16: every record an adapter produced has serving grams above 0, whatever serving
\* size the store or the service holds
C16_ServingPositive ==
    \A k \in 1..Len(all_results) : all_results[k].serving_g > 0

\* _search_opennutrition has been run for the query in progress
OpenNutritionSearched ==
    /\ search_pc \in {"sources", "returned", "raised"}
    /\ \E k \in 1..(source_i - 1) : k <= Len(food_sources) /\ food_sources[k] = "opennutrition"

\* _search_opennutrition has raised
OpenNutritionRaised ==
    /\ search_pc = "raised"
    /\ source_i <= Len(food_sources)
    /\ food_sources[source_i] = "opennutrition"

\* the rows of the opennutrition table the query selects that have a name and calories
\* float() reads
ReadableRows ==
    LET db == OpenNutritionDbs[opennutrition_db]
        rows == IF db.exists /\ db.connects /\ ~ db.error
                THEN LikeRows(db.rows, query, AdapterLimit) ELSE <<>>
    IN  SelectSeq(rows, LAMBDA r : /\ Truthy(r.description)
                                   /\ r.calories.t # "null"
                                   /\ ToFloat(r.calories).raised = "")

\* C17: for every stored serving value _parse_serving_grams returns an amount and never
\* raises, and _search_opennutrition returns the record of every row with a name
\* and calories
C17_ServingAlwaysParsed ==
    /\ ~ OpenNutritionRaised
    /\ OpenNutritionSearched =>
          \A k \in 1..Len(ReadableRows) :
              LET grams == parse_serving_grams(ReadableRows[k].serving)
              IN  /\ grams.raised = ""
                  /\ \E j \in 1..Len(all_results) :
                        /\ all_results[j].source = "OpenNutrition"
                        /\ all_results[j].description = ReadableRows[k].description
                        /\ all_results[j].serving_g = grams.value.n

\* calculate_meal_macros holds the answer of search_foods for the mention at item_i
MentionSearched == macros_pc = "searching" /\ search_pc = "returned"

\* a / b in thousandths for b # 0, rounded toward zero
Quotient(a, b) == IF b > 0 THEN a \div b ELSE 0 - (a \div (0 - b))

\* the multiplier the unit of a mention asks for, in thousandths (serving_g # 0 for the
\* units g and oz)
AskedMultiplier(item, serving_g) ==
    LET unit == IF item.arity = 2 THEN Word_servings ELSE item.unit
    IN  IF unit = Word_g THEN Quotient(item.quantity * One, serving_g)
        ELSE IF unit = Word_oz
        THEN Quotient(((item.quantity * OunceGrams) \div One) * One, serving_g)
        ELSE item.quantity

\* C18: for a resolved mention every nutrient total grows by the record's value times
\* the multiplier quantity/serving_g for g, quantity*28.35/serving_g for oz, and
\* quantity for every other unit, a pair counting as servings
C18_ScaledByServing ==
    [][(MentionSearched /\ search_results # <<>>) =>
          LET rec == search_results[1]
              item == mentions[item_i]
          IN  /\ (item.arity = 3 /\ item.unit \in {Word_g, Word_oz}) => rec.serving_g # 0
              /\ LET m == AskedMultiplier(item, rec.serving_g)
                 IN  /\ totals'.calories = totals.calories + (rec.calories * m) \div One
                     /\ totals'.protein = totals.protein + (rec.protein * m) \div One
                     /\ totals'.carbs = totals.carbs + (rec.carbs * m) \div One
                     /\ totals'.fat = totals.fat + (rec.fat * m) \div One
                     /\ totals'.sodium = totals.sodium + (rec.sodium * m) \div One
                     /\ totals'.fiber = totals.fiber + (rec.fiber * m) \div One]_vars

\* C19: when search_foods returns no record for a mention, the six nutrient totals and
\* the items stay as they are and the name of the mention is appended to unrecognized
C19_UnrecognizedOnlyAppended ==
    [][(MentionSearched /\ search_results = <<>>) =>
          /\ totals'.calories = totals.calories
          /\ totals'.protein = totals.protein
          /\ totals'.carbs = totals.carbs
          /\ totals'.fat = totals.fat
          /\ totals'.sodium = totals.sodium
          /\ totals'.fiber = totals.fiber
          /\ totals'.items = totals.items
          /\ totals'.unrecognized = Append(totals.unrecognized, mentions[item_i].name)]_vars

\* a mention found no record after another one was added to totals that are not zero
C19_Witness ==
    /\ macros_pc = "loop"
    /\ totals.calories > 0
    /\ Len(totals.items) = 1
    /\ Len(totals.unrecognized) = 1
    /\ item_i = 3
    /\ totals.unrecognized[1] = mentions[2].name

\* the mentions among the first n that a labelling marks, in input order
Marked(resolved, want, n) ==
    SelectSeq([k \in 1..n |-> k], LAMBDA k : resolved[k] = want)

\* every mention is once in items or in unrecognized, each list in input order
Accounted ==
    \E resolved \in [1..Len(mentions) -> BOOLEAN] :
        LET kept == Marked(resolved, TRUE, Len(mentions))
            out == Marked(resolved, FALSE, Len(mentions))
        IN  /\ Len(totals.items) = Len(kept)
            /\ \A k \in 1..Len(kept) :
                  /\ totals.items[k].quantity = mentions[kept[k]].quantity
                  /\ totals.items[k].unit = MentionUnit(mentions[kept[k]])
            /\ totals.unrecognized = [k \in 1..Len(out) |-> mentions[out[k]].name]

\* C20: calculate_meal_macros goes through every mention whatever happened to the
\* earlier ones: when the call ends, each mention is once, in input order, in items or
\* in unrecognized
C20_EveryMentionAccounted ==
    macros_pc \in {"returned", "raised"} => (macros_pc = "returned" /\ Accounted)

(***************************************************************************)
(* Properties of analyze_meal                                              *)
(***************************************************************************)
\* the text of the example
ExampleText == Chars("200g chicken breast and a cup of rice")

\* the catalog is the only store that answers: the local database is the catalog and is
\* a source, no OpenNutrition file exists and the USDA service has no key or times out
CatalogOnly ==
    /\ local_db = CatalogDb
    /\ "local_db" \in Range(food_sources)
    /\ opennutrition_db = 1
    /\ usda_service \in {1, 3}

\* C21: the text "200g chicken breast and a cup of rice" parses to 200 g of chicken
\* breast and 1 cup of rice, and aggregated against the catalog of chicken breast
\* (165 kcal per 100 g) and rice (200 kcal per 240 g) it gives two resolved items, no
\* unresolved name and 530 kcal
C21_ChickenAndRice ==
    /\ (text = ExampleText /\ parse_pc = "returned") =>
           food_items = <<[name |-> Chars("chicken breast"), quantity |-> 200 * One, unit |-> Word_g],
                          [name |-> Chars("rice"), quantity |-> One, unit |-> Word_cup]>>
    /\ (text = ExampleText /\ CatalogOnly /\ macros_pc = "returned") =>
           /\ Len(totals.items) = 2
           /\ totals.unrecognized = <<>>
           /\ totals.calories = 530 * One

C21_Witness ==
    /\ text = ExampleText
    /\ CatalogOnly
    /\ macros_pc = "returned"
    /\ totals.calories = 530 * One
    /\ multiplier = One

(***************************************************************************)
(* Properties of the order in which search_foods calls the adapters        *)
(***************************************************************************)
\* the USDA service does not answer: urlopen ends with its timeout
RemoteStalls ==
    /\ UsdaServices[usda_service].has_key
    /\ UsdaServices[usda_service].network = "OSError"

\* C22: the adapters of one search_foods call run concurrently and only the network
\* adapter has a timeout, so while the stalled network adapter is being waited for no
\* local or community adapter of the call is still to be started, whatever the order
\* of FOOD_SOURCES
C22_StalledRemoteDelaysNothing ==
    (AtSource("usda_api") /\ RemoteStalls) =>
        \A j \in (source_i + 1)..Len(food_sources) :
            food_sources[j] \notin {"local_db", "opennutrition"}

(***************************************************************************)
(* Properties of the history cache                                         *)
(***************************************************************************)
\* C23: whatever the interleaving of the _save_cache calls of several writers and the
\* _load_cache calls of readers, the cache file holds one whole document that was
\* written, never a part of one: both the file _CACHE_FILE names and the file a
\* reader has open
C23_ReadersSeeWholeDocument ==
    /\ names.cache # 0 => Complete(inodes[names.cache])
    /\ \A p \in Procs : hist_pc[p] = "read" => Complete(inodes[fd[p]])

\* the step of process p goes from one place of get_history to another
Goes(p, from, to) == hist_pc[p] \in from /\ hist_pc'[p] \in to

\* the cache file read by p holds a document built today for the days p asked for
ValidFor(p) ==
    /\ Complete(inodes[fd[p]])
    /\ inodes[fd[p]][1].of.built_date = today
    /\ inodes[fd[p]][1].of.days_analyzed = days[p]

RECURSIVE SumField(_, _)
SumField(meals, k) == IF meals = <<>> THEN 0 ELSE meals[1][k] + SumField(Tail(meals), k)

\* the sums of the per-meal values logged
LoggedTotals == [k \in DOMAIN TotalsPatterns |-> SumField(meals_logged, k)]

\* C25: when the last call on the date's diet log was update_daily_totals, the log holds
\* exactly one Daily Totals section, at its end, and its calories, protein, carbs, fat,
\* sodium, fiber and hydration are the sums of the per-meal values in the log
C25_OneTotalsSectionOfSums ==
    (last_call = "update" /\ diet_file # <<>>) =>
        /\ Cardinality({i \in 1..Len(diet_file) : diet_file[i] = TotalsHead}) = 1
        /\ \E i \in 1..Len(diet_file) :
              SubSeq(diet_file, i, Len(diet_file)) = TotalsSection(LoggedTotals)

(***************************************************************************)
(* Properties of the word-number + unit rule                               *)
(***************************************************************************)
\* word_unit_pattern matches from s to $ with this number word at s
StartsWithNumberWord(word, txt, s) ==
    LET w == BlankRun(txt, OneOf({word}, txt, {s}), 1)
        a == w \cup BlankRun(txt, OneOf({Word_a, Word_an}, txt, w), 1)
        u == BlankRun(txt, OneOf(Range(WordUnitWords) \cup {x \o <<"s">> : x \in Range(WordUnitWords)},
                                 txt, a), 1)
    IN  Len(txt) \in u \cup BlankRun(txt, OneOf({Word_of}, txt, u), 1)

\* the unit word stands at the end of the text, before the blanks and the optional 'of'
EndsWithUnitWord(word, txt) ==
    \E p \in 0..Len(txt) :
        /\ MatchesAt(word, txt, p)
        /\ LET u == BlankRun(txt, {p + Len(word)}, 1)
           IN  Len(txt) \in u \cup BlankRun(txt, OneOf({Word_of}, txt, u), 1)

\* the word-number + unit rule is the one that applies to the call
WordUnitRuleApplies ==
    /\ NumberWithUnit(Nearby(before_text)) = NoMatch
    /\ AttachedNumber(food_text) = NoMatch
    /\ \E s \in 0..Len(Nearby(before_text)) : WordUnitMatches(Nearby(before_text), s)

\* C26: when the word-number + unit rule applies, the quantity returned is the value
\* of the word-number that starts the matched phrase ('a cup of' 1, 'two slices of' 2,
\* 'half a cup of' 0.5) and the unit is the unit word matched
C26_StartingWordNumber ==
    (extract_pc = "returned" /\ WordUnitRuleApplies) =>
        LET nearby == Nearby(before_text)
            s == Least({p \in 0..Len(nearby) : WordUnitMatches(nearby, p)})
        IN  /\ \E k \in 1..Len(WORD_NUMBERS) :
                  /\ StartsWithNumberWord(WORD_NUMBERS[k].word, nearby, s)
                  /\ extracted.quantity = WORD_NUMBERS[k].val
            /\ EndsWithUnitWord(extracted.unit, nearby)

\* the same for the calls whose matched phrase holds no 'a' or 'an' after its word-number
C26_WithoutArticle ==
    (extract_pc = "returned" /\ WordUnitRuleApplies
        /\ \A s \in 0..Len(Nearby(before_text)) :
              WordUnitMatches(Nearby(before_text), s) =>
                 \/ StartsWithNumberWord(Word_a, Nearby(before_text), s)
                 \/ StartsWithNumberWord(Word_an, Nearby(before_text), s)
                 \/ ~ WholeWordIn(Word_a, Slice(Nearby(before_text), s, Len(Nearby(before_text)))))
    => C26_StartingWordNumber

(***************************************************************************)
(* Properties of the gradual learning prompts                              *)
(***************************************************************************)
\* C27: get_next_prompt asks about each preference at most once: no two of the prompts it
\* has returned cover the same preference, the two covered by the combined safety prompt
\* included
C27_EachPreferenceAskedOnce ==
    \A i, j \in 1..Len(prompts) : i < j => prompts[i].covers \cap prompts[j].covers = {}

\* C28: a prompt that is not a safety prompt is returned only when total_meals_logged
\* minus last_prompt_at is at least 3, and at least 3 increment_interactions calls lie
\* between it and the prompt returned before it
C28_ThreeInteractionsBetweenPrompts ==
    \A j \in 1..Len(prompts) :
        prompts[j].priority # "safety" =>
            /\ prompts[j].at - prompts[j].last_prompt_at >= MinInteractionsBetweenPrompts
            /\ j > 1 => prompts[j].at - prompts[j - 1].at >= MinInteractionsBetweenPrompts

\* the prompts for a single preference are returned at most once each
C27_SingleKeyAskedOnce ==
    \A i, j \in 1..Len(prompts) :
        (i < j /\ prompts[i].key = prompts[j].key) => prompts[i].key = "allergies_and_health"

\* the prompts of the preferences scheduled by a number of meals keep the minimum
C28_ScheduledKeepMinimum ==
    \A j \in 1..Len(prompts) :
        (/\ prompts[j].priority # "safety"
         /\ PROMPT_SCHEDULE[prompts[j].key].trigger_count # OnMealPlanOnly) =>
            prompts[j].at - prompts[j].last_prompt_at >= MinInteractionsBetweenPrompts

(***************************************************************************)
(* Properties of record_exercise                                           *)
(***************************************************************************)
\* the weight of a stored session in thousandths of a pound
InLbs(session) == IF session.unit = "kg" THEN session.weight * 2205 ELSE session.weight * 1000

\* the greatest weight, in pounds, of the sessions
BestLbs(sessions) ==
    CHOOSE w \in {InLbs(sessions[i]) : i \in 1..Len(sessions)} :
        \A i \in 1..Len(sessions) : InLbs(sessions[i]) <= w

\* C29: after any sequence of record_exercise calls, the pr_weight stored for an exercise
\* is the greatest weight in pounds over its recorded sessions; the last call reported
\* is_weight_pr exactly when the exercise had an entry before and the new weight is
\* strictly above the best of the earlier sessions, so never for a first entry or an
\* equal weight
C29_PrWeightIsBest ==
    /\ \A name \in ExerciseNames :
          exercises[name].tracked =>
              /\ exercises[name].history # <<>>
              /\ exercises[name].pr_weight = BestLbs(exercises[name].history)
    /\ recorded # "" =>
          LET sessions == exercises[recorded].history
              earlier == SubSeq(sessions, 1, Len(sessions) - 1)
          IN  pr_result.is_weight_pr =
                  (earlier # <<>> /\ InLbs(sessions[Len(sessions)]) > BestLbs(earlier))

\* a third session of 225 lbs after 100 kg and 225 lbs: a PR was reported for the second
\* session only, and the best is 225 lbs
C29_Witness ==
    /\ recorded = "Bench Press"
    /\ Len(exercises[recorded].history) = 3
    /\ exercises[recorded].history[1].unit = "kg"
    /\ exercises[recorded].history[1].weight = 100
    /\ exercises[recorded].history[2].unit = "lbs"
    /\ exercises[recorded].history[2].weight = 225
    /\ exercises[recorded].history[3].unit = "lbs"
    /\ exercises[recorded].history[3].weight = 225
    /\ exercises[recorded].pr_weight = 225 * One
    /\ ~ pr_result.is_weight_pr
    /\ pr_result.previous_best_weight = <<225 * One>>

(***************************************************************************)
(* Properties of score_template                                            *)
(***************************************************************************)
\* the variety mode whose weights apply to the call: balanced when the profile's mode is
\* missing or is none of the three
ModeOfCall ==
    LET mode == Lower(score_call.profile.meal_variety)
    IN  IF mode \in {"explore", "balanced", "consistent"} THEN mode ELSE "balanced"

RECURSIVE WeightedTotal(_, _, _)
WeightedTotal(fs, weights, factors) ==
    IF fs = {} THEN 0
    ELSE LET f == CHOOSE x \in fs : TRUE
         IN  weights[f] * factors[f] + WeightedTotal(fs \ {f}, weights, factors)

\* C30: each of the ten factors score_template computes lies in [0, 1] (0..1000
\* thousandths), the score returned is the sum of the factors weighted by the weights of
\* the call's variety mode (balanced when the mode is missing or unknown), and the score
\* lies in [0, 1] (0..100000, the weights being hundredths)
C30_FactorsAndScoreInUnitRange ==
    score_pc = "returned" =>
        /\ DOMAIN score_factors = FactorNames
        /\ \A f \in FactorNames : score_factors[f] >= 0 /\ score_factors[f] <= 1000
        /\ score = WeightedTotal(FactorNames, VARIETY_WEIGHTS[ModeOfCall], score_factors)
        /\ score >= 0
        /\ score <= 100000

\* a call with an unknown variety mode and the greatest random value whose template has
\* more than twice the calories left for the meal, so that the calorie fit is cut off at 0
C30_Witness ==
    /\ score_pc = "returned"
    /\ score_call.profile.meal_variety = "random"
    /\ score_call.rnd = 999
    /\ score_call.remaining.calories > 0
    /\ score_call.template.calories * score_call.remaining.meals_remaining
           > 2 * score_call.remaining.calories
    /\ score_factors.calorie_fit = 0
    /\ score_factors.sodium_ok = 1000
    /\ score > 0

====
